---- MODULE Spec2Model ----
(***************************************************************************)
(* Model of agent_runtimes/mcp/toolsets.py: the module-level registry of   *)
(* started MCP servers and the coroutines that fill and empty it           *)
(* (specification Spec).  Further specifications model                     *)
(*   SpecRoutes   the route handlers that start and stop servers through   *)
(*                the lifecycle manager (routes/mcp.py, routes/agents.py), *)
(*   SpecCatalog  create_mcp_servers_with_availability (mcp/servers.py),   *)
(*   SpecTools    the two tool discovery functions (mcp/tools.py,          *)
(*                mcp/servers.py),                                         *)
(*   SpecErrors   the reasons the two start paths record for an exception, *)
(*   SpecQueries  the three queries of toolsets.py and their callers.      *)
(*                                                                         *)
(* The coroutines run on one asyncio event loop: the code between two      *)
(* awaits is atomic, and at every await any other task may run.  Each      *)
(* action below is one such atomic piece.  What the external MCP server    *)
(* does at an await (succeeds, raises, times out, never answers) is an     *)
(* input chosen with \E.                                                   *)
(***************************************************************************)
EXTENDS Integers, Sequences, FiniteSets, TLC

\* ------------------------------------------------------------------ bounds
NumServers == 2   \* servers the config file can name
MaxStarts == 2    \* start operations of a run: the _start_single_server calls and
                  \* the initialize_mcp_toolsets calls, those once per server loaded
MaxArgs == 1      \* arguments of a server
MaxArgLen == 60   \* characters of the longest argument of a server
MaxMsgLen == 101  \* characters of the longest exception message
MaxTools == 2     \* tools a remote server lists
MaxRequests == 2  \* HTTP requests of a run served by the route handlers, a
                  \* request counted once per server it selects
MaxValueLen == 5  \* characters of the longest option value given to a parser
MaxCallers == 3   \* tasks calling get_mcp_servers
NumThreads == 2   \* threads calling the CodeSandboxManager
MaxManagers == 2  \* CodeSandboxManager objects constructed in a run
MaxCalls == 4     \* calls of the methods of CodeSandboxManager objects in a run
MaxClassCalls == 4  \* calls of get_instance and reset_instance in a run

\* ------------------------------------------------------- program constants
MCP_SERVER_STARTUP_TIMEOUT == 300

Servers == 1..NumServers
InitCalls == 1..MaxStarts
SingleCalls == 1..MaxStarts
Requests == 1..MaxRequests
Callers == 1..MaxCallers
Threads == 1..NumThreads
Managers == 1..MaxManagers
\* A server name a request can carry: 0 is a name in neither the catalog nor
\* the config file.
Names == 0..NumServers
\* origin of a selected server: item.origin == "config", or anything else
Origins == {"config", "catalog"}
NoInstance == <<0, "none">>
\* The step sent no response.
NoResponse == [kind |-> "none", name |-> -1, status |-> 0, awaited |-> FALSE]

\* get_predefined_mcp_servers(): id, package_name and required_env_vars of
\* the six predefined servers.
get_predefined_mcp_servers ==
    << [id |-> "earthdata-mcp-server", package_name |-> "earthdata_mcp_server",
        required_env_vars |-> <<"EARTHDATA_USERNAME", "EARTHDATA_PASSWORD">>],
       [id |-> "markitdown-mcp", package_name |-> "markitdown_mcp",
        required_env_vars |-> <<>>],
       [id |-> "logfire-mcp", package_name |-> "logfire_mcp",
        required_env_vars |-> <<"LOGFIRE_TOKEN">>],
       [id |-> "linkedin-mcp-server", package_name |-> "linkedin_mcp_server",
        required_env_vars |-> <<"LINKEDIN_ACCESS_TOKEN">>],
       [id |-> "jupyter-mcp-server", package_name |-> "jupyter_mcp_server",
        required_env_vars |-> <<>>],
       [id |-> "tavily-mcp", package_name |-> "tavily_mcp",
        required_env_vars |-> <<"TAVILY_API_KEY">>] >>

\* The environment variables the predefined servers require.
EnvVars ==
    UNION {{c.required_env_vars[i] : i \in DOMAIN c.required_env_vars} :
              c \in {get_predefined_mcp_servers[j] : j \in DOMAIN get_predefined_mcp_servers}}

\* A text is a sequence of pieces: a character, or a fixed piece such as a
\* type name or ": ".  Text(n) is a text of n distinct characters that are
\* not whitespace.
Text(n) == [i \in 1..n |-> ToString(i)]

\* The characters str.strip() removes; a blank and a tab stand for all of them.
Whitespace == {" ", "\t"}

\* An optional string: None, or a text.
None == [is_none |-> TRUE, text |-> <<>>]
Str(s) == [is_none |-> FALSE, text |-> s]

\* A parser has not returned; it returned the list items.
NotParsed == [parsed |-> FALSE, items |-> <<>>]
Parsed(items) == [parsed |-> TRUE, items |-> items]

\* The defaults of the options of serve that the model follows.
NoOptions ==
    [agent_id |-> None, agent_name |-> None, no_config_mcp_servers |-> FALSE,
     mcp_servers |-> None, codemode |-> FALSE, skills |-> None]

\* The environment variables serve writes for the process uvicorn loads.
ServeEnvVars ==
    {"AGENT_RUNTIMES_DEFAULT_AGENT", "AGENT_RUNTIMES_AGENT_NAME",
     "AGENT_RUNTIMES_NO_CONFIG_MCP_SERVERS", "AGENT_RUNTIMES_MCP_SERVERS",
     "AGENT_RUNTIMES_CODEMODE", "AGENT_RUNTIMES_SKILLS"}

\* SandboxConfig(): the defaults of a new manager's configuration.
\* mcp_proxy_url is left out: configure stores it and nothing modelled reads it.
SandboxConfig == [variant |-> "local-eval", jupyter_url |-> None, jupyter_token |-> None]

\* The last step ended no operation.
NoResult == [op |-> "none", outcome |-> "none", val |-> 0, waited |-> FALSE]

\* An exception without cause and without nested exceptions.
PlainExceptions ==
    {[type |-> "OSError", msg |-> Text(1)], [type |-> "KeyError", msg |-> <<>>]}

\* No exception: also the __cause__ of an exception that has none.
NoException ==
    [type |-> "", msg |-> <<>>, cause |-> <<>>, is_group |-> FALSE, exceptions |-> <<>>]

\* No caller holds the value a query returned.
NotHeld == [held |-> FALSE, value |-> <<>>, ref |-> "fresh", mutated |-> FALSE]

\* No MCPServer is being built.
NoServer == [id |-> "", is_available |-> FALSE, enabled |-> FALSE, tools |-> <<>>]
\* The function has not returned.
NotReturned == [returned |-> FALSE, tools |-> <<>>]
\* The function has returned the list ts.
Returned(ts) == [returned |-> TRUE, tools |-> ts]

\* An AsyncExitStack is identified by the call that created it and the server
\* it was created for: <<c, s>> for start_one of initialize call c, and
\* <<MaxStarts + k, s>> for the stack handed to _start_single_server call k.
StackIds == (1..(2 * MaxStarts)) \X Servers

\* f"Timeout after {MCP_SERVER_STARTUP_TIMEOUT}s"
TimeoutReason == "Timeout after " \o ToString(MCP_SERVER_STARTUP_TIMEOUT) \o "s"
\* The reason built from a caught exception; its text is not modelled.
ErrorReason == "Error"

VARIABLES
    mcp_toolsets,            \* _mcp_toolsets: sequence of server ids
    initialization_started,  \* _initialization_started
    failed_servers,          \* _failed_servers: server id -> reason
    exit_stacks,             \* _exit_stacks: sequence of stack ids
    ctx,                     \* per stack: "none" | "open" | "closed"
    initPc,                  \* per initialize call: "idle" | "gather" | "done"
    initServers,             \* per initialize call: the servers it loaded
    startPc,                 \* per start_one task <<c, s>>: its position
    singlePc,                \* per _start_single_server call: its position
    singleSrv,               \* per _start_single_server call: its server
    shutPc,                  \* shutdown_mcp_toolsets: "idle" | "closing" | "done"
    shutIdx,                 \* index of the for loop over _exit_stacks
    shutCur,                 \* the stack whose __aexit__ is awaited
    shutErr,                 \* the running shutdown caught an exception
    afterShutdown            \* history: a shutdown returned, no start invoked since

toolsetsVars == <<mcp_toolsets, initialization_started, failed_servers, exit_stacks, ctx,
                  initPc, initServers, startPc, singlePc, singleSrv,
                  shutPc, shutIdx, shutCur, shutErr, afterShutdown>>

\* State of the route handlers of routes/mcp.py and routes/agents.py and of
\* the two managers they call.  A handler that has responded leaves nothing
\* behind but its response.
VARIABLES
    instances,               \* lifecycle manager: <<server, origin>> -> instance state
    mgr_servers,             \* mcp_manager: the server names added to it
    received,                \* requests received, one counted once per selected server
    reqKind,                 \* per handler running: "enable" | "disable" | "create" | "update"
    reqName,                 \* per handler running: the server_name of its path (-1: none)
    reqPc,                   \* per handler: "idle" | "loop" | "await_start" | "await_stop"
    reqLeft,                 \* per handler running: how many selected servers are left
    reqTarget,               \* per handler running: the instance whose start it awaits
    reqItem,                 \* per loop awaiting a start: the selected server it is at
    responded                \* the response the last step sent, if it sent one

routesVars == <<instances, mgr_servers, received, reqKind, reqName, reqPc, reqLeft,
                reqTarget, reqItem, responded>>

\* State of create_mcp_servers_with_availability of mcp/servers.py.
VARIABLES
    environ,                 \* os.environ: per variable "unset" | "" | "value"
    catPc,                   \* "idle" | "loop" | "discover" | "done"
    catIdx,                  \* index of the for loop over the predefined servers
    catDiscover,             \* the discover_tools argument
    catServer,               \* the MCPServer built by the running iteration
    catServers,              \* servers: the list the function returns
    catSpawned,              \* history: the ids discover_mcp_server_tools was called for
    catFailed,               \* history: the ids whose discovery timed out or failed
    catRaised                \* history: discover_mcp_server_tools raised

catalogVars == <<environ, catPc, catIdx, catDiscover, catServer, catServers, catSpawned,
                 catFailed, catRaised>>

\* State of the two tool discovery functions, mcp/tools.py and mcp/servers.py.
VARIABLES
    remote_tools,            \* the tools the remote server lists
    converted_tools,         \* what get_tools_from_mcp returned
    discovered_tools         \* what discover_mcp_server_tools returned

toolsVars == <<remote_tools, converted_tools, discovered_tools>>

\* The exception a server start raised and the reasons the two start paths
\* of toolsets.py record for it.
VARIABLES
    exc,                     \* the exception caught
    start_one_reason,        \* error_msg of start_one (<<>>: none recorded)
    single_reason            \* error_detail of _start_single_server (<<>>: none recorded)

errorVars == <<exc, start_one_reason, single_reason>>

\* The arguments of the servers and what the callers of the three queries of
\* toolsets.py hold.
VARIABLES
    server_args,             \* per server: server.args
    toolsets_ret,            \* the list a caller got from get_mcp_toolsets
    status_ret,              \* the dict a caller got from get_mcp_toolsets_status
    info_ret                 \* the list a caller got from get_mcp_toolsets_info

queryVars == <<server_args, toolsets_ret, status_ret, info_ret>>

\* The option value given to the two parsers of __main__.py and what they
\* returned.
VARIABLES
    value,                   \* the value argument: None or a string
    skills_ret,              \* what parse_skills returned
    servers_ret              \* what parse_mcp_servers returned

parseVars == <<value, skills_ret, servers_ret>>

\* State of one run of the serve command of __main__.py.
VARIABLES
    opts,                    \* the option values typer passes to serve
    uvicorn_installed,       \* import uvicorn succeeds
    servePc,                 \* "start" | "export" | "launch" | "exit"
    exit_code,               \* exit code of the command (-1: it has not exited)
    os_environ,              \* the variables serve has written
    uvicorn_run_calls        \* how often uvicorn.run was called

cliVars == <<opts, uvicorn_installed, servePc, exit_code, os_environ, uvicorn_run_calls>>

\* State of the server cache of mcp/servers.py and of the tasks calling
\* get_mcp_servers.  Each task calls once; a list is identified by the task
\* whose call built it.
VARIABLES
    mcp_servers,             \* _mcp_servers: 0 for None, else the list cached
    initialization_lock,     \* _initialization_lock: the task holding it, 0 if free
    create_runs,             \* runs of create_mcp_servers_with_availability started
    getPc,                   \* per task: "idle" | "waiting" | "creating" | "returned"
    getForce,                \* per task: its force_refresh argument
    getRet,                  \* per task: the list it returned (0: none yet)
    getWaited                \* history, per task: it had to wait for the lock

cacheVars == <<mcp_servers, initialization_lock, create_runs, getPc, getForce, getRet,
               getWaited>>

\* State of services/code_sandbox_manager.py: the class attributes of
\* CodeSandboxManager, the managers constructed, the sandboxes created, and
\* the threads calling in.  An operation that has ended leaves nothing behind
\* but its result.
VARIABLES
    cls_instance,            \* CodeSandboxManager._instance: 0 for None, else a manager
    cls_lock,                \* CodeSandboxManager._lock: the thread holding it, 0 if free
    num_managers,            \* managers constructed so far; manager ids are 1..num_managers
    resets,                  \* history: reset_instance calls that cleared _instance
    m_config,                \* per manager: self._config
    m_sandbox,               \* per manager: self._sandbox, 0 for None, else a sandbox
    m_sandbox_lock,          \* per manager: self._sandbox_lock, the thread holding it or 0
    sandboxes,               \* the sandbox objects created, in order of creation
    calls,                   \* methods of managers called so far
    class_calls,             \* get_instance and reset_instance calls so far
    create_errors,           \* ValueErrors that _create_sandbox raised so far
    thPc,                    \* per thread: "idle" or its position in an operation
    thOp,                    \* per thread: the operation it is in ("none": idle)
    thMgr,                   \* per thread: the manager it holds a reference to (0: none)
    thStart,                 \* per thread in a get: the start argument
    thEpoch,                 \* per thread in get_instance: resets when it was called
    result                   \* the result of the operation the last step ended, if any

sandboxVars == <<cls_instance, cls_lock, num_managers, resets, m_config, m_sandbox,
                 m_sandbox_lock, sandboxes, calls, class_calls, create_errors, thPc, thOp,
                 thMgr, thStart, thEpoch, result>>

\* State of the agent registry of the routes (_agents) and of the create_agent
\* handlers.  An agent object is identified by the request that built it.
VARIABLES
    agents,                  \* _agents: agent id -> 0 (no entry) or the agent registered
    caPc,                    \* per handler: "idle" | "building" | "responded"
    caId,                    \* per handler: its agent_id
    caStatus                 \* per handler: the status code it responded with (0: none yet)

agentsVars == <<agents, caPc, caId, caStatus>>

vars == <<toolsetsVars, routesVars, catalogVars, toolsVars, errorVars, queryVars, parseVars, cliVars, cacheVars, sandboxVars, agentsVars>>

registry == <<mcp_toolsets, initialization_started, failed_servers, exit_stacks>>
initState == <<initPc, initServers, startPc>>
singleState == <<singlePc, singleSrv>>
shutState == <<shutPc, shutIdx, shutCur, shutErr>>

\* ----------------------------------------------------------------- helpers
EmptyDict == [x \in {} |-> ""]

\* d[k] = v of a Python dict
DictSet(d, k, v) == [x \in (DOMAIN d) \cup {k} |-> IF x = k THEN v ELSE d[x]]

Range(seq) == {seq[i] : i \in DOMAIN seq}

\* The servers of a config in the order load_mcp_servers returns them.
ServerOrder == [i \in 1..NumServers |-> i]

NoStack == <<0, 0>>

\* ----------------------------------------------------------------- queries
get_mcp_toolsets == mcp_toolsets

get_mcp_toolsets_status ==
    [initialized |-> initialization_started,
     ready_count |-> Len(mcp_toolsets),
     failed_count |-> Cardinality(DOMAIN failed_servers),
     ready_servers |-> mcp_toolsets,
     failed_servers |-> failed_servers]

\* ------------------------------------------------------------------- Init
\* The module-level registry as toolsets.py defines it at import.
InitToolsets ==
    /\ mcp_toolsets = <<>>
    /\ initialization_started = FALSE
    /\ failed_servers = EmptyDict
    /\ exit_stacks = <<>>
    /\ ctx = [st \in StackIds |-> "none"]
    /\ initPc = [c \in InitCalls |-> "idle"]
    /\ initServers = [c \in InitCalls |-> {}]
    /\ startPc = [t \in InitCalls \X Servers |-> "idle"]
    /\ singlePc = [k \in SingleCalls |-> "idle"]
    /\ singleSrv = [k \in SingleCalls |-> 0]
    /\ shutPc = "idle"
    /\ shutIdx = 0
    /\ shutCur = NoStack
    /\ shutErr = FALSE
    /\ afterShutdown = FALSE

\* No instance, no server added to the manager, no request received.
InitRoutes ==
    /\ instances = [k \in Servers \X Origins |-> "none"]
    /\ mgr_servers = {}
    /\ received = 0
    /\ reqKind = [r \in Requests |-> "none"]
    /\ reqName = [r \in Requests |-> -1]
    /\ reqPc = [r \in Requests |-> "idle"]
    /\ reqLeft = [r \in Requests |-> 0]
    /\ reqTarget = [r \in Requests |-> NoInstance]
    /\ reqItem = [r \in Requests |-> NoInstance]
    /\ responded = NoResponse

\* create_mcp_servers_with_availability is not running; no variable is set.
InitCatalog ==
    /\ environ = [v \in EnvVars |-> "unset"]
    /\ catPc = "idle"
    /\ catIdx = 0
    /\ catDiscover = FALSE
    /\ catServer = NoServer
    /\ catServers = <<>>
    /\ catSpawned = {}
    /\ catFailed = {}
    /\ catRaised = FALSE

\* No tool discovery has run.
InitTools ==
    /\ remote_tools = <<>>
    /\ converted_tools = NotReturned
    /\ discovered_tools = NotReturned

\* No exception has been caught.
InitErrors ==
    /\ exc = NoException
    /\ start_one_reason = <<>>
    /\ single_reason = <<>>

\* No caller holds a returned value; the servers have no arguments.
InitQueries ==
    /\ server_args = [s \in Servers |-> <<>>]
    /\ toolsets_ret = NotHeld
    /\ status_ret = NotHeld
    /\ info_ret = NotHeld

\* No parser has been called.
InitParse ==
    /\ value = None
    /\ skills_ret = NotParsed
    /\ servers_ret = NotParsed

\* serve has not been entered; no option is given.
InitCli ==
    /\ opts = NoOptions
    /\ uvicorn_installed = TRUE
    /\ servePc = "start"
    /\ exit_code = -1
    /\ os_environ = [k \in ServeEnvVars |-> None]
    /\ uvicorn_run_calls = 0

\* The cache is empty, the lock is free and no task has called.
InitCache ==
    /\ mcp_servers = 0
    /\ initialization_lock = 0
    /\ create_runs = 0
    /\ getPc = [t \in Callers |-> "idle"]
    /\ getForce = [t \in Callers |-> FALSE]
    /\ getRet = [t \in Callers |-> 0]
    /\ getWaited = [t \in Callers |-> FALSE]

\* No manager is constructed and no thread has called.
InitSandbox ==
    /\ cls_instance = 0
    /\ cls_lock = 0
    /\ num_managers = 0
    /\ resets = 0
    /\ m_config = [m \in Managers |-> SandboxConfig]
    /\ m_sandbox = [m \in Managers |-> 0]
    /\ m_sandbox_lock = [m \in Managers |-> 0]
    /\ sandboxes = <<>>
    /\ calls = 0
    /\ class_calls = 0
    /\ create_errors = 0
    /\ thPc = [t \in Threads |-> "idle"]
    /\ thOp = [t \in Threads |-> "none"]
    /\ thMgr = [t \in Threads |-> 0]
    /\ thStart = [t \in Threads |-> FALSE]
    /\ thEpoch = [t \in Threads |-> 0]
    /\ result = NoResult

\* The names given in CreateAgentRequest.name, as their characters.
AgentNames == {<<"M", "y", " ", "A">>, <<"m", "y", "-", "a">>, <<"b">>}

\* str.lower() of one character
lower_char(c) == IF c = "M" THEN "m" ELSE IF c = "A" THEN "a" ELSE c

\* request.name.lower().replace(" ", "-")
agent_id_of(name) ==
    [i \in DOMAIN name |-> IF lower_char(name[i]) = " " THEN "-" ELSE lower_char(name[i])]

\* The ids of the agents that can be registered.
AgentIds == {agent_id_of(name) : name \in AgentNames}

InitAgents ==
    /\ agents = [id \in AgentIds |-> 0]
    /\ caPc = [r \in Requests |-> "idle"]
    /\ caId = [r \in Requests |-> <<>>]
    /\ caStatus = [r \in Requests |-> 0]

Init == InitToolsets /\ InitRoutes /\ InitCatalog /\ InitTools /\ InitErrors /\ InitQueries /\ InitParse /\ InitCli /\ InitCache /\ InitSandbox /\ InitAgents

\* The start operations invoked so far: an initialize call counts once per
\* server it loaded (once when it loaded none).
RECURSIVE InitCost(_)
InitCost(n) ==
    IF n = 0 THEN 0
    ELSE InitCost(n - 1)
            + (IF initPc[n] = "idle" THEN 0
               ELSE IF initServers[n] = {} THEN 1
               ELSE Cardinality(initServers[n]))

Started == InitCost(MaxStarts) + Cardinality({k \in SingleCalls : singlePc[k] # "idle"})

\* ------------------------------------------ initialize_mcp_toolsets, start_one
\* Faulty variant of start_one_release: the failure handlers return without closing
\* the stack.
start_one_release_skipped(c) == c

\* stack.__aexit__(None, None, None) of a failure handler of start_one (any
\* exception of it is swallowed by the bare except): what was entered on the
\* stack is closed.
start_one_release(c) == IF c = "open" THEN "closed" ELSE c

\* Faulty variant of already_started: the guard lets every call through.
already_started_never == FALSE

\* if _initialization_started
already_started == initialization_started

\* The call: the guard on _initialization_started, the flag, the config file and
\* load_mcp_servers, up to the await of asyncio.gather.  gather creates one task
\* per loaded server; each runs start_one up to its first await that can
\* suspend, the wait_for around enter_async_context.
initialize_mcp_toolsets(c) ==
    /\ initPc[c] = "idle"
    /\ c > 1 => initPc[c - 1] # "idle"
    /\ Started < MaxStarts
    /\ afterShutdown' = FALSE
    /\ UNCHANGED <<mcp_toolsets, failed_servers, exit_stacks, ctx, singleState, shutState>>
    /\ \/ \* already started: warning, return
          /\ already_started
          /\ initPc' = [initPc EXCEPT ![c] = "done"]
          /\ UNCHANGED <<initialization_started, initServers, startPc>>
       \/ \* no config file, load_mcp_servers raises, or no server configured
          /\ ~already_started
          /\ initialization_started' = TRUE
          /\ \E path \in {"no_config", "load_error", "no_servers"} :
                initPc' = [initPc EXCEPT ![c] = "done"]
          /\ UNCHANGED <<initServers, startPc>>
       \/ \* servers loaded: gather(*[start_one(s) for s in servers])
          /\ ~already_started
          /\ initialization_started' = TRUE
          /\ \E loaded \in (SUBSET Servers) \ {{}} :
                /\ Started + Cardinality(loaded) <= MaxStarts
                /\ initServers' = [initServers EXCEPT ![c] = loaded]
                /\ startPc' = [t \in InitCalls \X Servers |->
                                 IF t[1] = c /\ t[2] \in loaded THEN "enter"
                                 ELSE startPc[t]]
          /\ initPc' = [initPc EXCEPT ![c] = "gather"]

\* await asyncio.wait_for(stack.enter_async_context(server), timeout) settles.
\* A server that never answers is the timeout.
start_one_enter(c, s) ==
    /\ startPc[<<c, s>>] = "enter"
    /\ UNCHANGED <<registry, initPc, initServers, singleState, shutState, afterShutdown>>
    /\ \/ \* entered: goes on to await server.list_tools()
          /\ ctx' = [ctx EXCEPT ![<<c, s>>] = "open"]
          /\ startPc' = [startPc EXCEPT ![<<c, s>>] = "list"]
       \/ \* asyncio.TimeoutError: nothing was entered on the stack
          /\ ctx' = [ctx EXCEPT ![<<c, s>>] = start_one_release(@)]
          /\ startPc' = [startPc EXCEPT ![<<c, s>>] = "failT"]
       \/ \* Exception
          /\ ctx' = [ctx EXCEPT ![<<c, s>>] = start_one_release(@)]
          /\ startPc' = [startPc EXCEPT ![<<c, s>>] = "failE"]

\* await server.list_tools() settles, or never does: no timeout guards it.
start_one_list(c, s) ==
    /\ startPc[<<c, s>>] = "list"
    /\ UNCHANGED <<registry, initPc, initServers, singleState, shutState, afterShutdown>>
    /\ \/ \* tools listed: return (server_id, True, server, stack)
          /\ startPc' = [startPc EXCEPT ![<<c, s>>] = "ok"]
          /\ UNCHANGED ctx
       \/ \* list_tools raises TimeoutError
          /\ ctx' = [ctx EXCEPT ![<<c, s>>] = start_one_release(@)]
          /\ startPc' = [startPc EXCEPT ![<<c, s>>] = "failT"]
       \/ \* list_tools raises another Exception
          /\ ctx' = [ctx EXCEPT ![<<c, s>>] = start_one_release(@)]
          /\ startPc' = [startPc EXCEPT ![<<c, s>>] = "failE"]
       \/ \* list_tools never returns
          /\ startPc' = [startPc EXCEPT ![<<c, s>>] = "hung"]
          /\ UNCHANGED ctx

Settled == {"ok", "failT", "failE"}

\* gather returns once every start_one task has returned.
gather_done(c) == \A s \in initServers[c] : startPc[<<c, s>>] \in Settled

\* Faulty variant of results_ready: the loop over the results stops at the first
\* failure, as a gather that fails fast would.
results_ready_until_failure(c) ==
    SelectSeq(ServerOrder,
              LAMBDA s : /\ s \in initServers[c]
                         /\ startPc[<<c, s>>] = "ok"
                         /\ \A r \in initServers[c] :
                               r < s => startPc[<<c, r>>] = "ok")

\* The loop over results, in the order of the servers: the successes appended
\* to _mcp_toolsets and their stacks to _exit_stacks ...
results_ready(c) ==
    SelectSeq(ServerOrder,
              LAMBDA s : s \in initServers[c] /\ startPc[<<c, s>>] = "ok")

results_stacks(c) ==
    [i \in 1..Len(results_ready(c)) |-> <<c, results_ready(c)[i]>>]

\* Faulty variant of results_failed: every failure is stored with the reason
\* of an exception.
results_failed_one_reason(c, d) ==
    LET bad == {s \in initServers[c] : startPc[<<c, s>>] \in {"failT", "failE"}}
    IN  [x \in (DOMAIN d) \cup bad |-> IF x \in bad THEN ErrorReason ELSE d[x]]

\* Faulty variant of results_failed: a timed out server is not recorded.
results_failed_errors_only(c, d) ==
    LET bad == {s \in initServers[c] : startPc[<<c, s>>] = "failE"}
    IN  [x \in (DOMAIN d) \cup bad |-> IF x \in bad THEN ErrorReason ELSE d[x]]

\* ... and the failures stored in _failed_servers.
results_failed(c, d) ==
    LET bad == {s \in initServers[c] : startPc[<<c, s>>] \in {"failT", "failE"}}
    IN  [x \in (DOMAIN d) \cup bad |->
            IF x \in bad
            THEN (IF startPc[<<c, x>>] = "failT" THEN TimeoutReason ELSE ErrorReason)
            ELSE d[x]]

\* Faulty variant of result_branch: the loop raises on the first failed server.
result_branch_failure_raises(r) ==
    CASE r = "ok" -> "success"
      [] r \in {"failT", "failE"} -> "raise"
      [] OTHER -> "unexpected"

\* The branch the loop takes on one result of gather: an exception object is
\* logged as unexpected, a tuple is a success or a failure.  No branch raises.
result_branch(r) ==
    CASE r = "ok" -> "success"
      [] r \in {"failT", "failE"} -> "failure"
      [] OTHER -> "unexpected"

\* How the call ends after the loop: it returns, unless a branch raised an
\* exception that the enclosing try does not catch.
results_end(c) ==
    IF \E s \in initServers[c] : result_branch(startPc[<<c, s>>]) = "raise"
    THEN "raised"
    ELSE "done"

\* gather returns; the results are recorded and the call returns.
gather_join(c) ==
    /\ initPc[c] = "gather"
    /\ gather_done(c)
    /\ mcp_toolsets' = mcp_toolsets \o results_ready(c)
    /\ exit_stacks' = exit_stacks \o results_stacks(c)
    /\ failed_servers' = results_failed(c, failed_servers)
    /\ initPc' = [initPc EXCEPT ![c] = results_end(c)]
    /\ UNCHANGED <<initialization_started, ctx, initServers, startPc, singleState,
                   shutState, afterShutdown>>

\* --------------------------------------------------------- _start_single_server
SingleStack(k) == <<MaxStarts + k, singleSrv[k]>>

\* The call with its server and the caller's exit stack, up to the await of
\* wait_for(exit_stack.enter_async_context(server)).
start_single_server(k, s) ==
    /\ singlePc[k] = "idle"
    /\ k > 1 => singlePc[k - 1] # "idle"
    /\ Started < MaxStarts
    /\ singlePc' = [singlePc EXCEPT ![k] = "enter"]
    /\ singleSrv' = [singleSrv EXCEPT ![k] = s]
    /\ afterShutdown' = FALSE
    /\ UNCHANGED <<registry, ctx, initState, shutState>>

\* The wait_for settles: the server is appended to _mcp_toolsets, or the
\* failure is stored in _failed_servers and the call returns False.  The exit
\* stack stays the caller's: it is neither closed nor put in _exit_stacks.
single_enter(k) ==
    /\ singlePc[k] = "enter"
    /\ UNCHANGED <<initialization_started, exit_stacks, initState, singleSrv,
                   shutState, afterShutdown>>
    /\ \/ \* entered: _mcp_toolsets.append(server), then await server.list_tools()
          /\ ctx' = [ctx EXCEPT ![SingleStack(k)] = "open"]
          /\ mcp_toolsets' = Append(mcp_toolsets, singleSrv[k])
          /\ singlePc' = [singlePc EXCEPT ![k] = "list"]
          /\ UNCHANGED failed_servers
       \/ \* asyncio.TimeoutError
          /\ failed_servers' = DictSet(failed_servers, singleSrv[k], TimeoutReason)
          /\ singlePc' = [singlePc EXCEPT ![k] = "false"]
          /\ UNCHANGED <<mcp_toolsets, ctx>>
       \/ \* ExceptionGroup or Exception
          /\ failed_servers' = DictSet(failed_servers, singleSrv[k], ErrorReason)
          /\ singlePc' = [singlePc EXCEPT ![k] = "false"]
          /\ UNCHANGED <<mcp_toolsets, ctx>>

\* await server.list_tools(), for the log only: its exception is swallowed.
single_list(k) ==
    /\ singlePc[k] = "list"
    /\ UNCHANGED <<registry, ctx, initState, singleSrv, shutState, afterShutdown>>
    /\ \/ \* tools listed, or list_tools raised: return True
          \E outcome \in {"ok", "exception"} :
              singlePc' = [singlePc EXCEPT ![k] = "true"]
       \/ \* list_tools never returns
          singlePc' = [singlePc EXCEPT ![k] = "hung"]

\* --------------------------------------------------------- shutdown_mcp_toolsets
\* What awaiting stack.__aexit__ can end with.
CloseOutcomes == {"ok", "cancel_scope", "runtime_error", "exception"}

\* Faulty variant of close_handled: only the cancel scope RuntimeError is suppressed,
\* any other exception leaves the loop.
close_handled_cancel_scope_only(o) == o \in {"ok", "cancel_scope"}

\* The except clauses around stack.__aexit__: RuntimeError (a cancel scope error
\* logged at debug level, any other as a warning) and Exception are caught.
close_handled(o) == o \in {"ok", "cancel_scope", "runtime_error", "exception"}

\* The lines after the loop: the registry is emptied, the flag reset.
shutdown_finish ==
    /\ exit_stacks' = <<>>
    /\ mcp_toolsets' = <<>>
    /\ failed_servers' = EmptyDict
    /\ initialization_started' = FALSE
    /\ shutPc' = "done"
    /\ shutIdx' = 0
    /\ shutCur' = NoStack
    /\ afterShutdown' = TRUE

\* The call, up to the first await of stack.__aexit__; with no exit stack the
\* loop body never runs and the call returns without suspending.
shutdown_mcp_toolsets ==
    /\ shutPc \in {"idle", "done"}
    /\ shutErr' = FALSE
    /\ UNCHANGED <<ctx, initState, singleState>>
    /\ IF exit_stacks = <<>>
       THEN shutdown_finish
       ELSE /\ shutPc' = "closing"
            /\ shutIdx' = 1
            /\ shutCur' = exit_stacks[1]
            /\ UNCHANGED <<registry, afterShutdown>>

\* The awaited __aexit__ ends: the stack's context is closed; a caught exception
\* is logged.  The for loop then takes the next element of _exit_stacks as the
\* list is now, or ends.
shutdown_close ==
    /\ shutPc = "closing"
    /\ UNCHANGED <<initState, singleState>>
    /\ \E o \in CloseOutcomes :
          /\ ctx' = [ctx EXCEPT ![shutCur] = IF @ = "open" THEN "closed" ELSE @]
          /\ shutErr' = (shutErr \/ o # "ok")
          /\ IF ~close_handled(o)
             THEN /\ shutPc' = "raised"
                  /\ UNCHANGED <<registry, shutIdx, shutCur, afterShutdown>>
             ELSE IF shutIdx < Len(exit_stacks)
             THEN /\ shutIdx' = shutIdx + 1
                  /\ shutCur' = exit_stacks[shutIdx + 1]
                  /\ UNCHANGED <<registry, shutPc, afterShutdown>>
             ELSE shutdown_finish

\* -------------------------------------------------------------------- Next
\* What the coroutines of toolsets.py leave alone.
exceptToolsets == <<routesVars, catalogVars, toolsVars, errorVars, queryVars, parseVars, cliVars, cacheVars, sandboxVars, agentsVars>>

Next ==
    \/ (\E c \in InitCalls : initialize_mcp_toolsets(c)) /\ UNCHANGED exceptToolsets
    \/ (\E c \in InitCalls, s \in Servers : start_one_enter(c, s)) /\ UNCHANGED exceptToolsets
    \/ (\E c \in InitCalls, s \in Servers : start_one_list(c, s)) /\ UNCHANGED exceptToolsets
    \/ (\E c \in InitCalls : gather_join(c)) /\ UNCHANGED exceptToolsets
    \/ (\E k \in SingleCalls, s \in Servers : start_single_server(k, s)) /\ UNCHANGED exceptToolsets
    \/ (\E k \in SingleCalls : single_enter(k)) /\ UNCHANGED exceptToolsets
    \/ (\E k \in SingleCalls : single_list(k)) /\ UNCHANGED exceptToolsets
    \/ shutdown_mcp_toolsets /\ UNCHANGED exceptToolsets
    \/ shutdown_close /\ UNCHANGED exceptToolsets

Spec == Init /\ [][Next]_vars

\* ================================================================== claims
InFlight(c) == initPc[c] = "gather"

\* The step in which initialize call c records its results and returns.
Returns(c) == initPc[c] = "gather" /\ initPc'[c] = "done"

\* C1: when an initialize call returns, every server of it whose own context
\* entry and tool listing succeeded is in the ready list, with its exit stack
\* recorded, whatever the other servers of the call did.
C1_StartupIsolated ==
    [][\A c \in InitCalls : Returns(c) =>
          \A s \in initServers[c] : startPc[<<c, s>>] = "ok" =>
              /\ s \in Range(get_mcp_toolsets')
              /\ <<c, s>> \in Range(exit_stacks')]_vars

\* A call has returned with one of its servers ready and another one failed
\* with an error.
C1_Witness ==
    \E c \in InitCalls : \E s, t \in initServers[c] :
        /\ initPc[c] = "done"
        /\ startPc[<<c, s>>] = "ok" /\ s \in Range(mcp_toolsets)
        /\ startPc[<<c, t>>] = "failE" /\ t \in DOMAIN failed_servers

\* C2: once shutdown_mcp_toolsets has returned, and until a start operation is
\* invoked again, get_mcp_toolsets() is empty and ready_count is 0.
C2_EmptyAfterShutdown ==
    afterShutdown =>
        /\ get_mcp_toolsets = <<>>
        /\ get_mcp_toolsets_status.ready_count = 0

\* C3: the ready list holds at most one entry per server id.
C3_OneEntryPerServer ==
    \A i, j \in DOMAIN mcp_toolsets :
        i # j => mcp_toolsets[i] # mcp_toolsets[j]

C5_FailedHoldsNoSession ==
    /\ \A c \in InitCalls : \A s \in initServers[c] :
          startPc[<<c, s>>] \in {"failT", "failE"} => ctx[<<c, s>>] # "open"
    /\ \A k \in SingleCalls :
          singlePc[k] = "false" => ctx[SingleStack(k)] # "open"
    /\ \A s \in DOMAIN failed_servers :
          \/ \E c \in InitCalls :
                /\ s \in initServers[c]
                /\ startPc[<<c, s>>] \in {"failT", "failE"}
                /\ ctx[<<c, s>>] # "open"
          \/ \E k \in SingleCalls :
                /\ singleSrv[k] = s
                /\ singlePc[k] = "false"
                /\ ctx[SingleStack(k)] # "open"

\* A server whose context was entered and whose tool listing then failed is
\* in the failed map, its context closed.
C5_Witness ==
    \E c \in InitCalls : \E s \in initServers[c] :
        /\ initPc[c] = "done"
        /\ startPc[<<c, s>>] = "failE"
        /\ ctx[<<c, s>>] = "closed"
        /\ s \in DOMAIN failed_servers

\* C6: once shutdown_mcp_toolsets has returned, no context entered by a start
\* operation that has settled is open.
C6_NothingOpenAfterShutdown ==
    afterShutdown =>
        /\ \A c \in InitCalls : \A s \in initServers[c] :
              ctx[<<c, s>>] = "open" => InFlight(c)
        /\ \A k \in SingleCalls :
              singlePc[k] # "idle" /\ ctx[SingleStack(k)] = "open" =>
                  singlePc[k] \in {"enter", "list", "hung"}

\* C7: an initialize call that waits for its servers can always go on: one of
\* its start_one tasks can still settle, or gather can return.
C7_InitializeReturns ==
    \A c \in InitCalls : InFlight(c) =>
        ENABLED (\/ gather_join(c)
                 \/ \E s \in Servers : start_one_enter(c, s)
                 \/ \E s \in Servers : start_one_list(c, s))

\* C8: at every point where another task can run, each server of
\* get_mcp_toolsets() has an entered context that is not closed.
C8_ReadyHasLiveSession ==
    \A i \in DOMAIN get_mcp_toolsets :
        \E st \in StackIds : st[2] = get_mcp_toolsets[i] /\ ctx[st] = "open"

\* C9: a shutdown in which closing an exit stack raised still ends by
\* returning, with every exit stack closed and the ready list, the exit
\* stacks and the failed map empty and the flag reset.
C9_ShutdownSwallowsErrors ==
    [][(shutPc = "closing" /\ shutPc' # "closing" /\ shutErr') =>
          /\ shutPc' = "done"
          /\ \A i \in DOMAIN exit_stacks : ctx'[exit_stacks[i]] = "closed"
          /\ mcp_toolsets' = <<>>
          /\ exit_stacks' = <<>>
          /\ failed_servers' = EmptyDict
          /\ initialization_started' = FALSE]_vars

\* A shutdown that caught an exception has returned, and the contexts of two
\* servers that had been ready are closed.
C9_Witness ==
    /\ shutPc = "done"
    /\ shutErr
    /\ \E c \in InitCalls : \E s, t \in initServers[c] :
          /\ s # t
          /\ startPc[<<c, s>>] = "ok" /\ ctx[<<c, s>>] = "closed"
          /\ startPc[<<c, t>>] = "ok" /\ ctx[<<c, t>>] = "closed"
    /\ mcp_toolsets = <<>>
    /\ exit_stacks = <<>>

\* C10: no server id is both in ready_servers and a key of failed_servers.
C10_ReadyNotFailed ==
    Range(get_mcp_toolsets_status.ready_servers)
        \cap DOMAIN get_mcp_toolsets_status.failed_servers = {}

\* ------------------------------------------------------------------- C11
Count(seq, x) == Cardinality({i \in DOMAIN seq : seq[i] = x})

\* The entry of server t in the failed map, "" when it has none.
FailedEntry(d, t) == IF t \in DOMAIN d THEN d[t] ELSE ""

C20_InitializedMeansCompleted ==
    get_mcp_toolsets_status.initialized => \E c \in InitCalls : initPc[c] = "done"

\* ------------------------------------------------------------------- C30
\* C30: an initialize call made while _initialization_started is set returns
\* at once, starts no server and leaves the registry, the contexts and the
\* tasks as they are; start_one tasks are created only by a call that finds
\* the flag unset and sets it, and only the end of a shutdown unsets it.  So
\* between two shutdowns one call at most starts servers, each loaded server
\* once.
C30_SecondInitializeIsNoOp ==
    [][/\ \A c \in InitCalls :
              (initPc[c] = "idle" /\ initPc'[c] # "idle" /\ initialization_started) =>
                  /\ initPc'[c] = "done"
                  /\ registry' = registry
                  /\ ctx' = ctx
                  /\ startPc' = startPc
                  /\ initServers' = initServers
       /\ (\E k \in InitCalls \X Servers : startPc[k] = "idle" /\ startPc'[k] # "idle") =>
              /\ ~initialization_started
              /\ initialization_started'
              /\ \E c \in InitCalls :
                    /\ initPc[c] = "idle" /\ initPc'[c] = "gather"
                    /\ \A k \in InitCalls \X Servers :
                          startPc'[k] # startPc[k] => (k[1] = c /\ k[2] \in initServers'[c])
       /\ (initialization_started /\ ~initialization_started') =>
              (shutPc' = "done" /\ ~afterShutdown /\ afterShutdown')]_vars

\* A second call has returned without starting anything while the first call
\* awaits its servers and no shutdown has run.
C30_Witness ==
    \E c, d \in InitCalls :
        /\ c < d
        /\ initPc[c] = "gather"
        /\ initServers[c] # {}
        /\ initPc[d] = "done"
        /\ initServers[d] = {}
        /\ \A s \in Servers : startPc[<<d, s>>] = "idle"
        /\ shutPc = "idle"
        /\ ~afterShutdown
        /\ initialization_started

\* ================================================================== routes
\* The lifecycle manager and the MCP manager, as the handlers use them.

\* MCP_SERVER_CATALOG.get(name): every server name but the unknown one.
MCP_SERVER_CATALOG == Servers

\* lifecycle_manager.get_server_config_from_file(name)
get_server_config_from_file(s) == s \in Servers

\* lifecycle_manager.is_server_running(name, is_config): o is "any" when the
\* caller passes no is_config.
is_server_running(s, o) ==
    \E k \in Servers \X Origins :
        /\ k[1] = s
        /\ o \in {"any", k[2]}
        /\ instances[k] = "running"

\* lifecycle_manager.get_running_server(name)
get_running_server(s) ==
    IF is_server_running(s, "any")
    THEN CHOOSE k \in Servers \X Origins : k[1] = s /\ instances[k] = "running"
    ELSE NoInstance

\* lifecycle_manager.start_server(name, config), up to its first await: a
\* running instance is returned as it is, a start under way is joined, and
\* otherwise a process is spawned for a new Starting entry.
start_server(k) ==
    IF instances[k] \in {"running", "starting"}
    THEN instances
    ELSE [instances EXCEPT ![k] = "starting"]

\* lifecycle_manager.stop_server(name): every entry of that name is removed.
stop_server(s) ==
    [k \in Servers \X Origins |-> IF k[1] = s THEN "none" ELSE instances[k]]

\* The connection attempt of a Starting entry ends: Running or Failed.
start_settles(k) ==
    /\ instances[k] = "starting"
    /\ \E o \in {"running", "failed"} : instances' = [instances EXCEPT ![k] = o]
    /\ responded' = NoResponse
    /\ UNCHANGED <<mgr_servers, received, reqKind, reqName, reqPc, reqLeft, reqTarget,
                   reqItem>>

\* The servers the run still has room to select.
Room == MaxRequests - received

\* A handler can take slot r: it is the first idle one, and the run has room
\* for one more request.
FreeSlot(r) ==
    /\ reqPc[r] = "idle"
    /\ \A q \in Requests : q < r => reqPc[q] # "idle"
    /\ Room >= 1

\* The handler in slot r goes on to position pc.
Continue(r, kind, name, pc, left, target) ==
    /\ reqKind' = [reqKind EXCEPT ![r] = kind]
    /\ reqName' = [reqName EXCEPT ![r] = name]
    /\ reqPc' = [reqPc EXCEPT ![r] = pc]
    /\ reqLeft' = [reqLeft EXCEPT ![r] = left]
    /\ reqTarget' = [reqTarget EXCEPT ![r] = target]
    /\ reqItem' = [reqItem EXCEPT ![r] = NoInstance]
    /\ responded' = NoResponse

\* The loop in slot r awaits start_server for the descriptor it found for the
\* selected server item.
AwaitStart(r, item, target) ==
    /\ reqPc' = [reqPc EXCEPT ![r] = "await_start"]
    /\ reqTarget' = [reqTarget EXCEPT ![r] = target]
    /\ reqItem' = [reqItem EXCEPT ![r] = item]
    /\ responded' = NoResponse
    /\ UNCHANGED <<reqKind, reqName, reqLeft>>

\* The handler in slot r ends with the given status; awaited tells whether
\* it had awaited start_server or stop_server.
Respond(r, kind, name, code, awaited) ==
    /\ reqKind' = [reqKind EXCEPT ![r] = "none"]
    /\ reqName' = [reqName EXCEPT ![r] = -1]
    /\ reqPc' = [reqPc EXCEPT ![r] = "idle"]
    /\ reqLeft' = [reqLeft EXCEPT ![r] = 0]
    /\ reqTarget' = [reqTarget EXCEPT ![r] = NoInstance]
    /\ reqItem' = [reqItem EXCEPT ![r] = NoInstance]
    /\ responded' = [kind |-> kind, name |-> name, status |-> code, awaited |-> awaited]

\* enable_catalog_server returns the configuration of the running instance.
enable_returns_existing(s) ==
    is_server_running(s, "any") /\ get_running_server(s) # NoInstance

\* POST /catalog/{server_name}/enable, up to the await of start_server.
enable_catalog_server(r, s) ==
    /\ FreeSlot(r)
    /\ received' = received + 1
    /\ IF s \notin MCP_SERVER_CATALOG
       THEN /\ Respond(r, "enable", s, 404, FALSE)
            /\ UNCHANGED instances
       ELSE IF enable_returns_existing(s)
       THEN /\ Respond(r, "enable", s, 201, FALSE)
            /\ UNCHANGED instances
       ELSE /\ instances' = start_server(<<s, "catalog">>)
            /\ Continue(r, "enable", s, "await_start", 0, <<s, "catalog">>)
    /\ UNCHANGED mgr_servers

\* start_server has returned to enable_catalog_server: no instance is a 500,
\* an instance is added to the MCP manager.
enable_resume(r) ==
    /\ reqKind[r] = "enable" /\ reqPc[r] = "await_start"
    /\ instances[reqTarget[r]] # "starting"
    /\ IF instances[reqTarget[r]] = "running"
       THEN /\ mgr_servers' = mgr_servers \cup {reqName[r]}
            /\ Respond(r, "enable", reqName[r], 201, TRUE)
       ELSE /\ Respond(r, "enable", reqName[r], 500, TRUE)
            /\ UNCHANGED mgr_servers
    /\ UNCHANGED <<instances, received>>

\* Faulty variant of disable_rejects: no request is rejected.
disable_rejects_never(s) == FALSE

\* disable_catalog_server raises 404: the server is neither running nor known
\* to the MCP manager.
disable_rejects(s) == ~is_server_running(s, "any") /\ s \notin mgr_servers

\* DELETE /catalog/{server_name}/disable, up to the await of stop_server.
disable_catalog_server(r, s) ==
    /\ FreeSlot(r)
    /\ received' = received + 1
    /\ IF disable_rejects(s)
       THEN /\ Respond(r, "disable", s, 404, FALSE)
            /\ UNCHANGED instances
       ELSE /\ instances' = stop_server(s)
            /\ Continue(r, "disable", s, "await_stop", 0, NoInstance)
    /\ UNCHANGED mgr_servers

\* stop_server has returned to disable_catalog_server.
disable_resume(r) ==
    /\ reqKind[r] = "disable" /\ reqPc[r] = "await_stop"
    /\ mgr_servers' = mgr_servers \ {reqName[r]}
    /\ Respond(r, "disable", reqName[r], 204, TRUE)
    /\ UNCHANGED <<instances, received>>

\* A selected server: its id and whether its origin is "config".
SelectedServers == Names \X Origins

\* Faulty variant of needs_start: the running check is dropped.
needs_start_always(item) == TRUE

\* Faulty variant of is_config: the origin of the selection is not looked at.
is_config_none(item) == "None"

\* is_config = item.origin == "config"
is_config(item) == IF item[2] = "config" THEN "True" ELSE "False"

\* The is_config argument as the lifecycle manager reads it: None asks for
\* either origin.
origin_of(ic) == IF ic = "True" THEN "config" ELSE IF ic = "False" THEN "catalog" ELSE "any"

\* The guard of the start loops: the selected server is not running under
\* its origin.
needs_start(item) == ~is_server_running(item[1], origin_of(is_config(item)))

\* The descriptor the loop finds for a selected server and the entry it
\* starts with it: the config file is tried if is_config is None or True, the
\* catalog if is_config is None or False and the config file gave nothing.
start_target(item) ==
    IF is_config(item) \in {"None", "True"} /\ get_server_config_from_file(item[1])
    THEN <<item[1], "config">>
    ELSE IF is_config(item) \in {"None", "False"} /\ item[1] \in MCP_SERVER_CATALOG
    THEN <<item[1], "catalog">>
    ELSE NoInstance

descriptor_found(item) == start_target(item) # NoInstance

\* One iteration of the loop over the selected servers, up to the await of
\* start_server or to the end of the iteration.  The request's list is an
\* input no other code reads: its next item is drawn when the loop gets to it.
\* An item without id is skipped like one without descriptor.
ensure_running(r) ==
    /\ reqPc[r] = "loop"
    /\ IF reqLeft[r] = 0
       THEN /\ Respond(r, reqKind[r], -1, 200, FALSE)
            /\ UNCHANGED instances
       ELSE \E item \in SelectedServers :
            IF needs_start(item) /\ descriptor_found(item)
            THEN /\ instances' = start_server(start_target(item))
                 /\ AwaitStart(r, item, start_target(item))
            ELSE /\ Continue(r, reqKind[r], -1, "loop", reqLeft[r] - 1, reqTarget[r])
                 /\ UNCHANGED instances
    /\ UNCHANGED <<mgr_servers, received>>

\* start_server has returned to the loop: next selected server.
ensure_running_resume(r) ==
    /\ reqKind[r] \in {"create", "update"} /\ reqPc[r] = "await_start"
    /\ instances[reqTarget[r]] # "starting"
    /\ Continue(r, reqKind[r], -1, "loop", reqLeft[r] - 1, reqTarget[r])
    /\ UNCHANGED <<instances, mgr_servers, received>>

\* POST /agents with n selected servers: the loop runs unless codemode is
\* enabled or nothing is selected.
create_agent(r, n, enable_codemode) ==
    /\ FreeSlot(r)
    /\ received' = received + (IF n = 0 THEN 1 ELSE n)
    /\ IF ~enable_codemode /\ n > 0
       THEN Continue(r, "create", -1, "loop", n, NoInstance)
       ELSE Respond(r, "create", -1, 200, FALSE)
    /\ UNCHANGED <<instances, mgr_servers>>

\* PATCH /agents/{agent_id}/mcp-servers of an existing agent, with n selected
\* servers.
update_agent_mcp_servers(r, n) ==
    /\ FreeSlot(r)
    /\ received' = received + (IF n = 0 THEN 1 ELSE n)
    /\ Continue(r, "update", -1, "loop", n, NoInstance)
    /\ UNCHANGED <<instances, mgr_servers>>

\* What the route handlers leave alone.
exceptRoutes == <<toolsetsVars, catalogVars, toolsVars, errorVars, queryVars, parseVars, cliVars, cacheVars, sandboxVars, agentsVars>>

NextRoutes ==
    \/ (\E r \in Requests, s \in Names : enable_catalog_server(r, s)) /\ UNCHANGED exceptRoutes
    \/ (\E r \in Requests : enable_resume(r)) /\ UNCHANGED exceptRoutes
    \/ (\E r \in Requests, s \in Names : disable_catalog_server(r, s)) /\ UNCHANGED exceptRoutes
    \/ (\E r \in Requests : disable_resume(r)) /\ UNCHANGED exceptRoutes
    \/ (\E r \in Requests, n \in 0..Room, cm \in BOOLEAN :
            create_agent(r, n, cm)) /\ UNCHANGED exceptRoutes
    \/ (\E r \in Requests, n \in 0..Room :
            update_agent_mcp_servers(r, n)) /\ UNCHANGED exceptRoutes
    \/ (\E r \in Requests : ensure_running(r)) /\ UNCHANGED exceptRoutes
    \/ (\E r \in Requests : ensure_running_resume(r)) /\ UNCHANGED exceptRoutes
    \/ (\E k \in Servers \X Origins : start_settles(k)) /\ UNCHANGED exceptRoutes

SpecRoutes == Init /\ [][NextRoutes]_vars

\* The step in which the handler in slot r calls start_server.
CallsStart(r) == reqPc[r] # "await_start" /\ reqPc'[r] = "await_start"

\* The step in which a handler of the given kind is entered for server s: it
\* either responds at once or goes on to an await.
Enters(kind, s) ==
    /\ received' # received
    /\ \/ responded' = [kind |-> kind, name |-> s, status |-> responded'.status,
                        awaited |-> FALSE]
       \/ \E r \in Requests : reqKind[r] = "none" /\ reqKind'[r] = kind /\ reqName'[r] = s

\* ------------------------------------------------------------------- C12
\* C12: a handler never calls start_server for a server that
\* is_server_running reports as running at its check: enable_catalog_server
\* returns 201 at once with the instances untouched, the loops of create_agent
\* and update_agent_mcp_servers go on to the next selected server, and a
\* running instance never goes back to starting.
C12_RunningNotRestarted ==
    [][/\ \A r \in Requests : CallsStart(r) =>
              /\ instances[reqTarget'[r]] # "running"
              /\ reqKind'[r] = "enable" => ~is_server_running(reqName'[r], "any")
              /\ reqKind'[r] \in {"create", "update"} =>
                     ~is_server_running(reqTarget'[r][1], reqTarget'[r][2])
       /\ \A s \in Servers :
              (Enters("enable", s) /\ is_server_running(s, "any")) =>
                  /\ responded' = [kind |-> "enable", name |-> s, status |-> 201,
                                   awaited |-> FALSE]
                  /\ instances' = instances
                  /\ mgr_servers' = mgr_servers
       /\ \A r \in Requests :
              (reqPc[r] = "loop" /\ reqPc'[r] = "loop" /\ reqLeft'[r] # reqLeft[r]) =>
                  /\ reqLeft'[r] = reqLeft[r] - 1
                  /\ instances' = instances
       /\ \A k \in Servers \X Origins :
              instances[k] = "running" => instances'[k] # "starting"]_vars

\* An enable request for a server that an earlier enable request started has
\* returned 201 without awaiting start_server.
C12_Witness ==
    \E s \in Servers :
        /\ responded = [kind |-> "enable", name |-> s, status |-> 201, awaited |-> FALSE]
        /\ instances[<<s, "catalog">>] = "running"
        /\ s \in mgr_servers

\* ------------------------------------------------------------------- C13
\* C13: a disable request for a server that is neither running nor known to
\* the MCP manager is answered at once with 404: it never awaits
\* stop_server, and the instances and the servers of the MCP manager are
\* unchanged.
C13_DisableUnknownRejected ==
    [][\A s \in Names :
           (Enters("disable", s) /\ ~is_server_running(s, "any") /\ s \notin mgr_servers) =>
               /\ responded' = [kind |-> "disable", name |-> s, status |-> 404,
                                awaited |-> FALSE]
               /\ \A r \in Requests : reqPc'[r] = reqPc[r]
               /\ instances' = instances
               /\ mgr_servers' = mgr_servers]_vars

\* A disable request was rejected while another server was running and
\* known to the MCP manager.
C13_Witness ==
    \E s \in Servers :
        /\ responded.kind = "disable" /\ responded.status = 404
        /\ responded.name # s
        /\ is_server_running(s, "any")
        /\ s \in mgr_servers

getenv_truthy(v) == environ[v] \notin {"unset", ""}

\* Faulty variant of check_env_vars_available: one set variable is enough.
check_env_vars_available_any(required_vars) ==
    \E i \in DOMAIN required_vars : getenv_truthy(required_vars[i])

\* check_env_vars_available(required_vars): all(os.getenv(var) for var in ...)
check_env_vars_available(required_vars) ==
    \A i \in DOMAIN required_vars : getenv_truthy(required_vars[i])

\* check_mcp_server_available(server_config); importable is what
\* check_package_available found for the package of the server.
check_mcp_server_available(server_config, importable) ==
    IF server_config.package_name # "" /\ ~importable
    THEN FALSE
    ELSE IF server_config.required_env_vars # <<>>
            /\ ~check_env_vars_available(server_config.required_env_vars)
    THEN FALSE
    ELSE TRUE

\* The environment the process runs in.
Environments == [EnvVars -> {"unset", "", "value"}]

\* create_mcp_servers_with_availability(discover_tools) is called.
create_mcp_servers_with_availability(discover_tools) ==
    /\ catPc = "idle"
    /\ catPc' = "loop"
    /\ catIdx' = 1
    /\ catDiscover' = discover_tools
    /\ UNCHANGED <<environ, catServer, catServers, catSpawned, catFailed, catRaised>>

\* After the last iteration the list is returned; otherwise the next one.
NextIteration ==
    IF catIdx = Len(get_predefined_mcp_servers)
    THEN catPc' = "done" /\ catIdx' = catIdx
    ELSE catPc' = "loop" /\ catIdx' = catIdx + 1

\* One iteration of the loop, up to the await of discover_mcp_server_tools
\* or, without discovery, to the end of the iteration.
availability_check ==
    /\ catPc = "loop"
    /\ \E importable \in BOOLEAN :
         LET config == get_predefined_mcp_servers[catIdx]
             is_available == check_mcp_server_available(config, importable)
             server == [id |-> config.id, is_available |-> is_available,
                        enabled |-> is_available, tools |-> <<>>]
         IN IF is_available /\ catDiscover
            THEN /\ catServer' = server
                 /\ catSpawned' = catSpawned \cup {config.id}
                 /\ catPc' = "discover"
                 /\ UNCHANGED <<catIdx, catServers>>
            ELSE /\ catServers' = Append(catServers, server)
                 /\ NextIteration
                 /\ UNCHANGED <<catServer, catSpawned>>
    /\ UNCHANGED <<environ, catDiscover, catFailed, catRaised>>

\* What the spawned server does within discover_mcp_server_tools: it lists
\* tools or none, the whole attempt exceeds the timeout, or the spawn, the
\* handshake (session.initialize) or list_tools raises.
DiscoveryOutcomes ==
    {"tools", "no_tools", "timeout", "spawn_error", "handshake_error", "list_error"}
DiscoveryFailures == {"timeout", "spawn_error", "handshake_error", "list_error"}

\* Faulty variant of discovery_caught: only the timeout is caught.
discovery_caught_timeout_only(outcome) == outcome = "timeout"

\* except asyncio.TimeoutError / except Exception of discover_mcp_server_tools
discovery_caught(outcome) == outcome \in DiscoveryFailures

\* discover_mcp_server_tools for a server with that outcome: the tools listed
\* are returned, a failure caught leaves the list empty.
discovery_result(outcome) ==
    IF outcome \in DiscoveryFailures
    THEN [raised |-> ~discovery_caught(outcome), tools |-> <<>>]
    ELSE [raised |-> FALSE, tools |-> IF outcome = "tools" THEN <<"tool">> ELSE <<>>]

\* discover_mcp_server_tools ends: the list it returns becomes server.tools;
\* had it raised, the handler of the loop would leave server.tools empty.
\* The server is appended and the loop goes on.
discovery_returns ==
    /\ catPc = "discover"
    /\ \E outcome \in DiscoveryOutcomes :
         LET res == discovery_result(outcome) IN
         /\ catServers' = Append(catServers,
                                 IF res.raised THEN catServer
                                 ELSE [catServer EXCEPT !.tools = res.tools])
         /\ catFailed' = IF outcome \in DiscoveryFailures
                         THEN catFailed \cup {catServer.id} ELSE catFailed
         /\ catRaised' = (catRaised \/ res.raised)
    /\ catServer' = NoServer
    /\ NextIteration
    /\ UNCHANGED <<environ, catDiscover, catSpawned>>

\* What create_mcp_servers_with_availability leaves alone.
exceptCatalog == <<toolsetsVars, routesVars, toolsVars, errorVars, queryVars, parseVars, cliVars, cacheVars, sandboxVars, agentsVars>>

InitCatalogInputs ==
    /\ InitToolsets /\ InitRoutes /\ InitTools /\ InitErrors /\ InitQueries /\ InitParse /\ InitCli /\ InitCache /\ InitSandbox /\ InitAgents
    /\ environ \in Environments
    /\ catPc = "idle"
    /\ catIdx = 0
    /\ catDiscover = FALSE
    /\ catServer = NoServer
    /\ catServers = <<>>
    /\ catSpawned = {}
    /\ catFailed = {}
    /\ catRaised = FALSE

NextCatalog ==
    \/ (\E d \in BOOLEAN : create_mcp_servers_with_availability(d)) /\ UNCHANGED exceptCatalog
    \/ availability_check /\ UNCHANGED exceptCatalog
    \/ discovery_returns /\ UNCHANGED exceptCatalog

SpecCatalog == InitCatalogInputs /\ [][NextCatalog]_vars

\* A required environment variable of the server is unset or empty.
MissingEnv(config) ==
    \E i \in DOMAIN config.required_env_vars :
        environ[config.required_env_vars[i]] \in {"unset", ""}

\* ------------------------------------------------------------------- C14
\* C14: a predefined server with a required environment variable that is
\* unset or empty is recorded with is_available = false, enabled = false and
\* no tools, and discover_mcp_server_tools is never called for it.
C14_UnavailableNeverSpawned ==
    /\ \A i \in DOMAIN catServers :
          MissingEnv(get_predefined_mcp_servers[i]) =>
              /\ catServers[i].id = get_predefined_mcp_servers[i].id
              /\ catServers[i].is_available = FALSE
              /\ catServers[i].enabled = FALSE
              /\ catServers[i].tools = <<>>
    /\ \A i \in DOMAIN get_predefined_mcp_servers :
          MissingEnv(get_predefined_mcp_servers[i]) =>
              get_predefined_mcp_servers[i].id \notin catSpawned
    /\ catPc = "discover" => ~MissingEnv(get_predefined_mcp_servers[catIdx])

\* The function has returned: one server lacks one of its two variables and
\* is unavailable, and another one was spawned and has its tools.
C14_Witness ==
    /\ catPc = "done"
    /\ Len(catServers) = Len(get_predefined_mcp_servers)
    /\ environ["EARTHDATA_USERNAME"] = "value"
    /\ environ["EARTHDATA_PASSWORD"] = ""
    /\ catServers[1].is_available = FALSE
    /\ \E i \in DOMAIN catServers :
          /\ catServers[i].is_available
          /\ catServers[i].tools # <<>>
          /\ catServers[i].id \in catSpawned

\* ------------------------------------------------------------------- C28
\* C28: discover_mcp_server_tools never raises, whatever the spawned server
\* does, and create_mcp_servers_with_availability goes through all predefined
\* servers in order: a failed discovery costs the server its tools, not the
\* servers after it their entry.
C28_DiscoveryFailureIsData ==
    /\ ~catRaised
    /\ catPc \in {"loop", "discover"} => Len(catServers) = catIdx - 1
    /\ catPc = "done" => Len(catServers) = Len(get_predefined_mcp_servers)
    /\ \A i \in DOMAIN catServers :
          /\ catServers[i].id = get_predefined_mcp_servers[i].id
          /\ catServers[i].id \in catFailed => catServers[i].tools = <<>>

\* The function has returned all servers; the discovery of one server failed
\* and a later server has its tools.
C28_Witness ==
    /\ catPc = "done"
    /\ Len(catServers) = Len(get_predefined_mcp_servers)
    /\ \E i, j \in DOMAIN catServers :
          /\ i < j
          /\ catServers[i].id \in catFailed
          /\ catServers[i].is_available
          /\ catServers[j].id \notin catFailed
          /\ catServers[j].tools # <<>>

\* ========================================================== tool discovery
\* What a remote tool carries as inputSchema: no such attribute, None, an
\* empty dict, or a schema.
RemoteSchemas == {"absent", "None", "{}", "{type: object, properties: {x}, required: [x]}"}

\* The dict get_tools_from_mcp puts in place of a missing schema.
EmptyObjectSchema == "{type: object, properties: {}, required: []}"

\* A tool as the remote server lists it.
RemoteTools == [name : {"tool"}, description : {"None", "text"}, inputSchema : RemoteSchemas]

\* The lists of tools a remote server can answer list_tools with.
RemoteToolLists == UNION {[1..n -> RemoteTools] : n \in 0..MaxTools}

\* tool.description or ""
description_or_empty(d) == IF d = "None" THEN "" ELSE d

\* hasattr(tool, "inputSchema") and tool.inputSchema
has_truthy_schema(tool) == tool.inputSchema \notin {"absent", "None", "{}"}

\* The tool_dict get_tools_from_mcp builds for one tool.
tool_dict(tool) ==
    [name |-> tool.name,
     description |-> description_or_empty(tool.description),
     inputSchema |-> IF has_truthy_schema(tool) THEN tool.inputSchema ELSE EmptyObjectSchema]

\* The MCPServerTool discover_mcp_server_tools builds for one tool.
mcp_tool(tool) ==
    [name |-> tool.name,
     description |-> description_or_empty(tool.description),
     enabled |-> TRUE,
     input_schema |-> IF tool.inputSchema # "absent" THEN tool.inputSchema ELSE "None"]

\* get_tools_from_mcp(base_url, token): the converted tools, or [] when the
\* connection or list_tools raised.
get_tools_from_mcp ==
    /\ ~converted_tools.returned
    /\ \E outcome \in {"ok", "exception"} :
         converted_tools' =
             IF outcome = "ok"
             THEN Returned([i \in DOMAIN remote_tools |-> tool_dict(remote_tools[i])])
             ELSE Returned(<<>>)
    /\ UNCHANGED <<remote_tools, discovered_tools>>

\* discover_mcp_server_tools(server_config, timeout): the tools, or [] when
\* there is no command, on a timeout and on an error.
discover_mcp_server_tools ==
    /\ ~discovered_tools.returned
    /\ \E outcome \in {"ok", "no_command", "timeout", "exception"} :
         discovered_tools' =
             IF outcome = "ok"
             THEN Returned([i \in DOMAIN remote_tools |-> mcp_tool(remote_tools[i])])
             ELSE Returned(<<>>)
    /\ UNCHANGED <<remote_tools, converted_tools>>

\* What the discovery functions leave alone.
exceptTools == <<toolsetsVars, routesVars, catalogVars, errorVars, queryVars, parseVars, cliVars, cacheVars, sandboxVars, agentsVars>>

InitToolsInputs ==
    /\ InitToolsets /\ InitRoutes /\ InitCatalog /\ InitErrors /\ InitQueries /\ InitParse /\ InitCli /\ InitCache /\ InitSandbox /\ InitAgents
    /\ remote_tools \in RemoteToolLists
    /\ converted_tools = NotReturned
    /\ discovered_tools = NotReturned

NextTools ==
    \/ get_tools_from_mcp /\ UNCHANGED exceptTools
    \/ discover_mcp_server_tools /\ UNCHANGED exceptTools

SpecTools == InitToolsInputs /\ [][NextTools]_vars

\* ------------------------------------------------------------------- C19
\* C19: every tool either discovery function returns carries an input schema
\* that is not None, and the empty-object schema when the remote tool has no
\* inputSchema.
C19_SchemaNeverNull ==
    /\ \A i \in DOMAIN converted_tools.tools :
          /\ converted_tools.tools[i].inputSchema # "None"
          /\ remote_tools[i].inputSchema \in {"absent", "None"} =>
                 converted_tools.tools[i].inputSchema = EmptyObjectSchema
    /\ \A i \in DOMAIN discovered_tools.tools :
          /\ discovered_tools.tools[i].input_schema # "None"
          /\ remote_tools[i].inputSchema \in {"absent", "None"} =>
                 discovered_tools.tools[i].input_schema = EmptyObjectSchema

\* ========================================================= failure reasons
\* str(e).strip(): leading and trailing whitespace removed.
RECURSIVE lstrip(_)
lstrip(s) == IF s # <<>> /\ Head(s) \in Whitespace THEN lstrip(Tail(s)) ELSE s

RECURSIVE rstrip(_)
rstrip(s) ==
    IF s # <<>> /\ s[Len(s)] \in Whitespace THEN rstrip(SubSeq(s, 1, Len(s) - 1)) ELSE s

strip(s) == rstrip(lstrip(s))

\* s[:n]
Prefix(s, n) == SubSeq(s, 1, IF Len(s) < n THEN Len(s) ELSE n)

\* '; '.join(parts)
RECURSIVE join(_)
join(parts) ==
    IF parts = <<>> THEN <<>>
    ELSE IF Len(parts) = 1 THEN parts[1]
    ELSE parts[1] \o <<"; ">> \o join(Tail(parts))

\* str(e): the message; for an exception group the count of its nested
\* exceptions follows.
str(e) == IF e.is_group THEN e.msg \o <<" (n sub-exceptions)">> ELSE e.msg

\* start_one: error_msg = f"{type(e).__name__}: {str(e)[:100]}"
start_one_error_msg(e) == <<e.type, ": ">> \o Prefix(str(e), 100)

\* _start_single_server, except ExceptionGroup: one part per nested exception.
group_error_detail(eg) ==
    LET part(x) == IF strip(x.msg) # <<>>
                   THEN <<x.type, ": ">> \o strip(x.msg)
                   ELSE <<x.type>>
        parts == [i \in DOMAIN eg.exceptions |-> part(eg.exceptions[i])]
    IN IF parts # <<>> THEN join(parts) ELSE <<"Unknown error in TaskGroup">>

\* _start_single_server, except Exception: the cause, the nested exceptions,
\* the message, or the bare type name.
exception_error_detail(e) ==
    LET error_msg == strip(str(e)) IN
    IF e.cause # <<>>
    THEN <<e.type, ": ">> \o error_msg
             \o <<" (caused by ", e.cause[1].type, ": ">> \o strip(e.cause[1].msg) \o <<")">>
    ELSE IF e.exceptions # <<>>
    THEN <<e.type, ": ">>
             \o join([i \in DOMAIN e.exceptions |->
                         <<e.exceptions[i].type, ": ">> \o strip(e.exceptions[i].msg)])
    ELSE IF error_msg # <<>>
    THEN <<e.type, ": ">> \o error_msg
    ELSE <<e.type>>

\* The reason _start_single_server records for an exception that is not a
\* timeout.
single_error_detail(e) ==
    IF e.is_group THEN group_error_detail(e) ELSE exception_error_detail(e)

\* The messages an exception can carry: up to MaxMsgLen characters, with or
\* without a leading blank.
Messages ==
    LET lens == {0, 1, MaxMsgLen - 1, MaxMsgLen}
    IN {Text(n) : n \in lens} \cup {<<" ">> \o Text(n) : n \in lens}

\* The exceptions a server start can raise.
Exceptions ==
    [type : {"RuntimeError", "McpError"},
     msg : Messages,
     cause : {<<>>} \cup {<<x>> : x \in PlainExceptions},
     is_group : BOOLEAN,
     exceptions : {<<>>} \cup {<<x>> : x \in PlainExceptions}
                    \cup {<<x, y>> : x \in PlainExceptions, y \in PlainExceptions}]

\* start_one catches the exception and returns its reason, which the results
\* loop records in _failed_servers.
start_one_fails ==
    /\ start_one_reason = <<>>
    /\ start_one_reason' = start_one_error_msg(exc)
    /\ UNCHANGED <<exc, single_reason>>

\* _start_single_server catches the exception and records its reason in
\* _failed_servers.
start_single_server_fails ==
    /\ single_reason = <<>>
    /\ single_reason' = single_error_detail(exc)
    /\ UNCHANGED <<exc, start_one_reason>>

\* What the exception handlers leave alone.
exceptErrors == <<toolsetsVars, routesVars, catalogVars, toolsVars, queryVars, parseVars, cliVars, cacheVars, sandboxVars, agentsVars>>

InitErrorsInputs ==
    /\ InitToolsets /\ InitRoutes /\ InitCatalog /\ InitTools /\ InitQueries /\ InitParse /\ InitCli /\ InitCache /\ InitSandbox /\ InitAgents
    /\ exc \in Exceptions
    /\ start_one_reason = <<>>
    /\ single_reason = <<>>

NextErrors ==
    \/ start_one_fails /\ UNCHANGED exceptErrors
    \/ start_single_server_fails /\ UNCHANGED exceptErrors

SpecErrors == InitErrorsInputs /\ [][NextErrors]_vars

\* The reason is '<exception type>: <message>' with a message of at most 100
\* characters.
Normalized(reason, e) ==
    /\ Len(reason) >= 2
    /\ reason[1] = e.type
    /\ reason[2] = ": "
    /\ Len(reason) - 2 <= 100

\* ------------------------------------------------------------------- C18
\* C18: the reason either start path records for an exception is
\* '<exception type>: <message>' with the message cut to at most 100
\* characters.
C18_ReasonNormalized ==
    /\ start_one_reason # <<>> => Normalized(start_one_reason, exc)
    /\ single_reason # <<>> => Normalized(single_reason, exc)

\* ================================================================= queries
\* One argument of a server: a string with its characters, or a value that
\* is not a string.
Args ==
    {[is_str |-> TRUE, text |-> Text(n)] : n \in {50, 51, MaxArgLen}}
        \cup {[is_str |-> FALSE, text |-> <<"8080">>]}

\* The argument lists a server can have.
ArgLists == UNION {[1..n -> Args] : n \in 0..MaxArgs}

\* s[-n:]
Suffix(s, n) == SubSeq(s, IF Len(s) < n THEN 1 ELSE Len(s) - n + 1, Len(s))

\* Faulty variant of redact: the threshold is one character too high.
redact_above_51(arg) ==
    IF arg.is_str /\ Len(arg.text) > 51
    THEN [is_str |-> TRUE,
          text |-> Prefix(arg.text, 10) \o <<".", ".", ".">> \o Suffix(arg.text, 4)]
    ELSE arg

\* get_mcp_toolsets_info: a string longer than 50 characters becomes
\* f"{arg[:10]}...{arg[-4:]}", anything else is appended as it is.
redact(arg) ==
    IF arg.is_str /\ Len(arg.text) > 50
    THEN [is_str |-> TRUE,
          text |-> Prefix(arg.text, 10) \o <<".", ".", ".">> \o Suffix(arg.text, 4)]
    ELSE arg

\* get_mcp_toolsets_info(): one dict per ready server.
get_mcp_toolsets_info ==
    [i \in DOMAIN mcp_toolsets |->
        [type |-> "MCPServerStdio",
         id |-> mcp_toolsets[i],
         command |-> "command",
         args |-> [j \in DOMAIN server_args[mcp_toolsets[i]] |->
                      redact(server_args[mcp_toolsets[i]][j])]]]

\* Faulty variant of returned_ref: the object itself is returned.
returned_ref_shared(obj) == obj

\* What a query returns for a module-level object: a copy of it.
returned_ref(obj) == "fresh"

\* A caller calls get_mcp_toolsets() and keeps the list.
query_toolsets ==
    /\ toolsets_ret' = [held |-> TRUE, value |-> get_mcp_toolsets,
                        ref |-> returned_ref("_mcp_toolsets"), mutated |-> FALSE]
    /\ status_ret' = NotHeld
    /\ info_ret' = NotHeld
    /\ UNCHANGED <<toolsetsVars, server_args>>

\* A caller calls get_mcp_toolsets_status() and keeps the dict.
query_status ==
    /\ status_ret' = [held |-> TRUE, value |-> get_mcp_toolsets_status,
                      ref |-> returned_ref("_failed_servers"), mutated |-> FALSE]
    /\ toolsets_ret' = NotHeld
    /\ info_ret' = NotHeld
    /\ UNCHANGED <<toolsetsVars, server_args>>

\* A caller calls get_mcp_toolsets_info() and keeps the list, which the
\* function builds anew.
query_info ==
    /\ info_ret' = [held |-> TRUE, value |-> get_mcp_toolsets_info,
                    ref |-> "fresh", mutated |-> FALSE]
    /\ toolsets_ret' = NotHeld
    /\ status_ret' = NotHeld
    /\ UNCHANGED <<toolsetsVars, server_args>>

\* The caller empties the list or the dict of failed servers it holds.  An
\* object shared with the module is emptied with it.
caller_mutates ==
    \/ /\ toolsets_ret.held
       /\ toolsets_ret' = [toolsets_ret EXCEPT !.value = <<>>, !.mutated = TRUE]
       /\ mcp_toolsets' = IF toolsets_ret.ref = "fresh" THEN mcp_toolsets ELSE <<>>
       /\ UNCHANGED <<initialization_started, failed_servers, exit_stacks, ctx, initState,
                      singleState, shutState, afterShutdown, server_args, status_ret,
                      info_ret>>
    \/ /\ status_ret.held
       /\ status_ret' = [status_ret EXCEPT !.value.failed_servers = EmptyDict,
                                           !.mutated = TRUE]
       /\ failed_servers' = IF status_ret.ref = "fresh" THEN failed_servers ELSE EmptyDict
       /\ UNCHANGED <<mcp_toolsets, initialization_started, exit_stacks, ctx, initState,
                      singleState, shutState, afterShutdown, server_args, toolsets_ret,
                      info_ret>>
    \/ /\ info_ret.held
       /\ info_ret' = [info_ret EXCEPT !.value = <<>>, !.mutated = TRUE]
       /\ UNCHANGED <<toolsetsVars, server_args, toolsets_ret, status_ret>>

\* The outcomes of an initialize call that loaded every server.
InitOutcomes == [Servers -> {"ok", "failE"}]

\* The registry after the first initialize_mcp_toolsets call has loaded every
\* server and returned, each server having started or failed.
AfterInitialize(o) ==
    /\ initPc = [c \in InitCalls |-> IF c = 1 THEN "done" ELSE "idle"]
    /\ initServers = [c \in InitCalls |-> IF c = 1 THEN Servers ELSE {}]
    /\ startPc = [u \in InitCalls \X Servers |-> IF u[1] = 1 THEN o[u[2]] ELSE "idle"]
    /\ ctx = [st \in StackIds |->
                 IF st[1] = 1 /\ o[st[2]] = "ok" THEN "open" ELSE "none"]
    /\ mcp_toolsets = results_ready(1)
    /\ exit_stacks = results_stacks(1)
    /\ failed_servers = results_failed(1, EmptyDict)
    /\ initialization_started = TRUE
    /\ singlePc = [k \in SingleCalls |-> "idle"]
    /\ singleSrv = [k \in SingleCalls |-> 0]
    /\ shutPc = "idle"
    /\ shutIdx = 0
    /\ shutCur = NoStack
    /\ shutErr = FALSE
    /\ afterShutdown = FALSE

\* What the queries and their callers leave alone.
exceptQueries == <<routesVars, catalogVars, toolsVars, errorVars, parseVars, cliVars, cacheVars, sandboxVars, agentsVars>>

InitQueriesInputs ==
    /\ InitRoutes /\ InitCatalog /\ InitTools /\ InitErrors /\ InitParse /\ InitCli /\ InitCache /\ InitSandbox /\ InitAgents
    /\ InitToolsets \/ \E o \in InitOutcomes : AfterInitialize(o)
    /\ server_args \in [Servers -> ArgLists]
    /\ toolsets_ret = NotHeld
    /\ status_ret = NotHeld
    /\ info_ret = NotHeld

NextQueries ==
    \/ query_toolsets /\ UNCHANGED exceptQueries
    \/ query_status /\ UNCHANGED exceptQueries
    \/ query_info /\ UNCHANGED exceptQueries
    \/ caller_mutates /\ UNCHANGED exceptQueries

SpecQueries == InitQueriesInputs /\ [][NextQueries]_vars

\* ------------------------------------------------------------------- C15
\* C15: in what get_mcp_toolsets_info returns, a string argument of a ready
\* server of at most 50 characters is unchanged, and a longer one is its
\* first 10 characters, '...' and its last 4 characters, so it never appears
\* in full.
C15_LongArgsRedacted ==
    (info_ret.held /\ ~info_ret.mutated) =>
        /\ Len(info_ret.value) = Len(mcp_toolsets)
        /\ \A i \in DOMAIN info_ret.value :
              LET given == server_args[mcp_toolsets[i]]
                  shown == info_ret.value[i].args
              IN /\ info_ret.value[i].id = mcp_toolsets[i]
                 /\ Len(shown) = Len(given)
                 /\ \A j \in DOMAIN given :
                       given[j].is_str =>
                           IF Len(given[j].text) <= 50
                           THEN shown[j] = given[j]
                           ELSE /\ shown[j].is_str
                                /\ Len(shown[j].text) = 17
                                /\ SubSeq(shown[j].text, 1, 10) = SubSeq(given[j].text, 1, 10)
                                /\ SubSeq(shown[j].text, 11, 13) = <<".", ".", ".">>
                                /\ SubSeq(shown[j].text, 14, 17) =
                                       SubSeq(given[j].text, Len(given[j].text) - 3,
                                              Len(given[j].text))
                                /\ shown[j] # given[j]

\* The info of a ready server shows an argument of 51 characters redacted,
\* and the info of another ready server shows one of 50 characters in full.
C15_Witness ==
    /\ info_ret.held /\ ~info_ret.mutated
    /\ \E i, k \in DOMAIN info_ret.value :
          /\ server_args[mcp_toolsets[i]] # <<>>
          /\ server_args[mcp_toolsets[i]][1] = [is_str |-> TRUE, text |-> Text(51)]
          /\ Len(info_ret.value[i].args[1].text) = 17
          /\ server_args[mcp_toolsets[k]] # <<>>
          /\ server_args[mcp_toolsets[k]][1] = [is_str |-> TRUE, text |-> Text(50)]
          /\ info_ret.value[k].args[1].text = Text(50)

\* ------------------------------------------------------------------- C17
\* C17: no query and no change a caller makes to a returned list or dict
\* changes the ready list, the failed map, the exit stacks or the flag, nor
\* what the three queries return afterwards.
C17_QueriesArePure ==
    [][/\ registry' = registry
       /\ get_mcp_toolsets' = get_mcp_toolsets
       /\ get_mcp_toolsets_status' = get_mcp_toolsets_status
       /\ get_mcp_toolsets_info' = get_mcp_toolsets_info]_vars

\* A caller has emptied the list it got from get_mcp_toolsets, and the ready
\* list still holds its servers.
C17_Witness ==
    /\ toolsets_ret.held /\ toolsets_ret.mutated
    /\ toolsets_ret.value = <<>>
    /\ mcp_toolsets # <<>>
    /\ get_mcp_toolsets = mcp_toolsets

\* ======================================================= option value parsers
\* value.split(","): the pieces between the commas, empty pieces included.
RECURSIVE split(_)
split(s) ==
    IF \A i \in DOMAIN s : s[i] # ","
    THEN <<s>>
    ELSE LET i == CHOOSE j \in DOMAIN s : s[j] = "," /\ \A k \in 1..(j - 1) : s[k] # ","
         IN <<SubSeq(s, 1, i - 1)>> \o split(SubSeq(s, i + 1, Len(s)))

\* [s.strip() for s in pieces if s.strip()]
RECURSIVE stripped_nonempty(_)
stripped_nonempty(pieces) ==
    IF pieces = <<>> THEN <<>>
    ELSE IF strip(Head(pieces)) # <<>>
         THEN <<strip(Head(pieces))>> \o stripped_nonempty(Tail(pieces))
         ELSE stripped_nonempty(Tail(pieces))

\* Faulty variant of stripped_nonempty: the items are not stripped.
RECURSIVE unstripped_nonempty(_)
unstripped_nonempty(pieces) ==
    IF pieces = <<>> THEN <<>>
    ELSE IF strip(Head(pieces)) # <<>>
         THEN <<Head(pieces)>> \o unstripped_nonempty(Tail(pieces))
         ELSE unstripped_nonempty(Tail(pieces))

\* not value: None and the empty string are falsy.
falsy(v) == v.is_none \/ v.text = <<>>

parse_skills(v) == IF falsy(v) THEN <<>> ELSE stripped_nonempty(split(v.text))

\* Faulty variant of parse_mcp_servers: the items keep their whitespace.
parse_mcp_servers_unstripped(v) ==
    IF falsy(v) THEN <<>> ELSE unstripped_nonempty(split(v.text))

parse_mcp_servers(v) == IF falsy(v) THEN <<>> ELSE stripped_nonempty(split(v.text))

\* The characters of an option value: two letters, the comma and whitespace.
Chars == {"a", "b", ","} \cup Whitespace
Values == {None} \cup {Str(s) : s \in UNION {[1..n -> Chars] : n \in 0..MaxValueLen}}

call_parse_skills ==
    /\ ~skills_ret.parsed
    /\ skills_ret' = Parsed(parse_skills(value))
    /\ UNCHANGED <<value, servers_ret>>

call_parse_mcp_servers ==
    /\ ~servers_ret.parsed
    /\ servers_ret' = Parsed(parse_mcp_servers(value))
    /\ UNCHANGED <<value, skills_ret>>

\* What the parsers leave alone.
exceptParse == <<toolsetsVars, routesVars, catalogVars, toolsVars, errorVars, queryVars, cliVars, cacheVars, sandboxVars, agentsVars>>

InitParseInputs ==
    /\ InitToolsets /\ InitRoutes /\ InitCatalog /\ InitTools /\ InitErrors /\ InitQueries /\ InitCli /\ InitCache /\ InitSandbox /\ InitAgents
    /\ value \in Values
    /\ skills_ret = NotParsed
    /\ servers_ret = NotParsed

NextParse ==
    \/ call_parse_skills /\ UNCHANGED exceptParse
    \/ call_parse_mcp_servers /\ UNCHANGED exceptParse

SpecParse == InitParseInputs /\ [][NextParse]_vars

\* The comma-separated items of a text, read off its positions: an item lies
\* between two neighbouring separators (a comma, or an end of the text), runs
\* from the first to the last character of that stretch that is not
\* whitespace, and is left out if the stretch has no such character.
Separators(s) == {0, Len(s) + 1} \cup {i \in DOMAIN s : s[i] = ","}
Stretches(s) ==
    {st \in Separators(s) \X Separators(s) :
        st[1] < st[2] /\ \A k \in Separators(s) : ~(st[1] < k /\ k < st[2])}
Inked(s, st) == {i \in (st[1] + 1)..(st[2] - 1) : s[i] \notin Whitespace}
ItemStretches(s) == {st \in Stretches(s) : Inked(s, st) # {}}
Lowest(S) == CHOOSE x \in S : \A y \in S : x <= y
Highest(S) == CHOOSE x \in S : \A y \in S : y <= x
RECURSIVE InOrder(_, _)
InOrder(s, sts) ==
    IF sts = {} THEN <<>>
    ELSE LET st == CHOOSE x \in sts : \A y \in sts : x[1] <= y[1]
         IN <<SubSeq(s, Lowest(Inked(s, st)), Highest(Inked(s, st)))>>
            \o InOrder(s, sts \ {st})
Items(v) == IF v.is_none THEN <<>> ELSE InOrder(v.text, ItemStretches(v.text))

\* ------------------------------------------------------------------- C26
\* C26: parse_mcp_servers and parse_skills return the comma-separated items of
\* their input in input order, each without surrounding whitespace and none
\* of them empty; a missing or empty input gives the empty list.
C26_ParsersReturnItems ==
    /\ servers_ret.parsed => servers_ret.items = Items(value)
    /\ skills_ret.parsed => skills_ret.items = Items(value)
    /\ (servers_ret.parsed /\ (value = None \/ value = Str(<<>>))) => servers_ret.items = <<>>
    /\ (skills_ret.parsed /\ (value = None \/ value = Str(<<>>))) => skills_ret.items = <<>>

\* Both parsers returned the two items of a value that has whitespace around
\* an item and an empty item.
C26_Witness ==
    /\ value = Str(<<" ", "a", ",", ",", "b">>)
    /\ servers_ret = Parsed(<< <<"a">>, <<"b">> >>)
    /\ skills_ret = Parsed(<< <<"a">>, <<"b">> >>)

\* ============================================================ serve command
\* AGENT_SPECS: the ids of the agent library (its content is generated; the
\* model keeps one id).
AGENT_SPECS == {<<"data-acquisition">>}

\* get_agent_spec(agent_id) found a spec: AGENT_SPECS.get(agent_id) is not None.
get_agent_spec(agent_id) == agent_id \in AGENT_SPECS

\* ",".join(items)
RECURSIVE join_commas(_)
join_commas(items) ==
    IF items = <<>> THEN <<>>
    ELSE IF Len(items) = 1 THEN items[1]
    ELSE items[1] \o <<",">> \o join_commas(Tail(items))

\* if agent_name and not agent_id
agent_name_without_id(o) == ~falsy(o.agent_name) /\ falsy(o.agent_id)

\* Faulty variant of skills_without_codemode: skills are accepted without
\* Code Mode.
skills_without_codemode_never(o) == FALSE

\* if skills and not codemode
skills_without_codemode(o) == ~falsy(o.skills) /\ ~o.codemode

\* if agent_id: ... if not agent_spec
agent_not_found(o) == ~falsy(o.agent_id) /\ ~get_agent_spec(o.agent_id.text)

\* raise typer.Exit(code)
Exit(code) ==
    /\ servePc' = "exit"
    /\ exit_code' = code

\* serve, the validation of its options: each failed check exits with code 1;
\* a valid agent id and the name the agent is registered under are exported.
serve_validate ==
    /\ servePc = "start"
    /\ IF agent_name_without_id(opts) \/ skills_without_codemode(opts) \/ agent_not_found(opts)
       THEN /\ Exit(1)
            /\ UNCHANGED os_environ
       ELSE /\ servePc' = "export"
            /\ UNCHANGED exit_code
            /\ os_environ' =
                 IF ~falsy(opts.agent_id)
                 THEN [os_environ EXCEPT
                         !["AGENT_RUNTIMES_DEFAULT_AGENT"] = opts.agent_id,
                         !["AGENT_RUNTIMES_AGENT_NAME"] =
                             IF ~falsy(opts.agent_name) THEN opts.agent_name
                             ELSE Str(<<"default">>)]
                 ELSE os_environ
    /\ UNCHANGED <<opts, uvicorn_installed, uvicorn_run_calls>>

\* serve, the export of the remaining options to the environment.
serve_export ==
    /\ servePc = "export"
    /\ servePc' = "launch"
    /\ os_environ' =
         [k \in ServeEnvVars |->
            IF k = "AGENT_RUNTIMES_NO_CONFIG_MCP_SERVERS" /\ opts.no_config_mcp_servers
            THEN Str(<<"true">>)
            ELSE IF k = "AGENT_RUNTIMES_MCP_SERVERS" /\ ~falsy(opts.mcp_servers)
            THEN Str(join_commas(parse_mcp_servers(opts.mcp_servers)))
            ELSE IF k = "AGENT_RUNTIMES_CODEMODE" /\ opts.codemode
            THEN Str(<<"true">>)
            ELSE IF k = "AGENT_RUNTIMES_SKILLS" /\ opts.codemode /\ ~falsy(opts.skills)
            THEN Str(join_commas(parse_skills(opts.skills)))
            ELSE os_environ[k]]
    /\ UNCHANGED <<opts, uvicorn_installed, exit_code, uvicorn_run_calls>>

\* serve, the launch: without uvicorn the command exits with code 1,
\* otherwise uvicorn.run serves until it returns.
serve_launch ==
    /\ servePc = "launch"
    /\ IF ~uvicorn_installed
       THEN /\ Exit(1)
            /\ UNCHANGED uvicorn_run_calls
       ELSE /\ uvicorn_run_calls' = uvicorn_run_calls + 1
            /\ Exit(0)
    /\ UNCHANGED <<opts, uvicorn_installed, os_environ>>

\* The values an option of type Optional[str] takes: not given, empty, a
\* name, a list of names.
OptionValues(names) == {None, Str(<<>>)} \cup {Str(n) : n \in names}

Options ==
    [agent_id : OptionValues({<<"data-acquisition">>, <<"nonexistent-agent">>}),
     agent_name : OptionValues({<<"my-agent">>}),
     no_config_mcp_servers : BOOLEAN,
     mcp_servers : OptionValues({<<"a", ",", " ", "b">>}),
     codemode : BOOLEAN,
     skills : OptionValues({<<"a", ",", "b">>})]

\* What serve leaves alone.
exceptCli == <<toolsetsVars, routesVars, catalogVars, toolsVars, errorVars, queryVars, parseVars, cacheVars, sandboxVars, agentsVars>>

InitCliInputs ==
    /\ InitToolsets /\ InitRoutes /\ InitCatalog /\ InitTools /\ InitErrors /\ InitQueries /\ InitParse /\ InitCache /\ InitSandbox /\ InitAgents
    /\ opts \in Options
    /\ uvicorn_installed \in BOOLEAN
    /\ servePc = "start"
    /\ exit_code = -1
    /\ os_environ = [k \in ServeEnvVars |-> None]
    /\ uvicorn_run_calls = 0

NextCli ==
    \/ serve_validate /\ UNCHANGED exceptCli
    \/ serve_export /\ UNCHANGED exceptCli
    \/ serve_launch /\ UNCHANGED exceptCli

SpecCli == InitCliInputs /\ [][NextCli]_vars

\* The arguments are invalid: a name for the agent without an agent id,
\* skills without Code Mode, or an agent id the library does not have.  An
\* option with an empty value counts as not given.
InvalidArguments ==
    \/ opts.agent_name \notin {None, Str(<<>>)} /\ opts.agent_id \in {None, Str(<<>>)}
    \/ opts.skills \notin {None, Str(<<>>)} /\ ~opts.codemode
    \/ opts.agent_id \notin {None, Str(<<>>), Str(<<"data-acquisition">>)}

\* ------------------------------------------------------------------- C25
\* C25: with invalid serve arguments the command exits with code 1 at its
\* first step and uvicorn.run is never called.
C25_InvalidArgumentsExit ==
    InvalidArguments =>
        /\ uvicorn_run_calls = 0
        /\ servePc \in {"start", "exit"}
        /\ servePc = "exit" => exit_code = 1

\* The command was given skills without Code Mode and nothing else invalid,
\* and has exited.
C25_Witness ==
    /\ opts.skills = Str(<<"a", ",", "b">>)
    /\ ~opts.codemode
    /\ opts.agent_id = Str(<<"data-acquisition">>)
    /\ opts.agent_name = Str(<<"my-agent">>)
    /\ uvicorn_installed
    /\ servePc = "exit"
    /\ exit_code = 1

\* ============================================================= server cache
\* Faulty variant of lock_free: the lock never makes a task wait.
lock_free_always == TRUE

\* async with _initialization_lock: the lock can be taken.
lock_free == initialization_lock = 0

\* if _mcp_servers is None or force_refresh
must_create(force_refresh) == mcp_servers = 0 \/ force_refresh

\* The task takes the lock and reads the cache: it either starts
\* create_mcp_servers_with_availability and awaits it, or releases the lock
\* and returns the cached list.
enter_locked(t, force_refresh) ==
    IF must_create(force_refresh)
    THEN /\ initialization_lock' = t
         /\ create_runs' = create_runs + 1
         /\ getPc' = [getPc EXCEPT ![t] = "creating"]
         /\ UNCHANGED <<mcp_servers, getRet>>
    ELSE /\ getPc' = [getPc EXCEPT ![t] = "returned"]
         /\ getRet' = [getRet EXCEPT ![t] = mcp_servers]
         /\ UNCHANGED <<mcp_servers, initialization_lock, create_runs>>

\* get_mcp_servers(force_refresh) is called by task t, up to its first await:
\* for the lock if it is held, else for the servers being created.
get_mcp_servers(t, force_refresh) ==
    /\ getPc[t] = "idle"
    /\ getForce' = [getForce EXCEPT ![t] = force_refresh]
    /\ IF lock_free
       THEN /\ enter_locked(t, force_refresh)
            /\ UNCHANGED getWaited
       ELSE /\ getPc' = [getPc EXCEPT ![t] = "waiting"]
            /\ getWaited' = [getWaited EXCEPT ![t] = TRUE]
            /\ UNCHANGED <<mcp_servers, initialization_lock, create_runs, getRet>>

\* The lock is released to a task waiting for it.
lock_acquired(t) ==
    /\ getPc[t] = "waiting"
    /\ lock_free
    /\ enter_locked(t, getForce[t])
    /\ UNCHANGED <<getForce, getWaited>>

\* create_mcp_servers_with_availability returns to task t: the list is
\* cached, the lock released and the cache returned.
servers_created(t) ==
    /\ getPc[t] = "creating"
    /\ mcp_servers' = t
    /\ getRet' = [getRet EXCEPT ![t] = t]
    /\ initialization_lock' = IF initialization_lock = t THEN 0 ELSE initialization_lock
    /\ getPc' = [getPc EXCEPT ![t] = "returned"]
    /\ UNCHANGED <<create_runs, getForce, getWaited>>

\* What get_mcp_servers leaves alone.
exceptCache == <<toolsetsVars, routesVars, catalogVars, toolsVars, errorVars, queryVars, parseVars, cliVars, sandboxVars, agentsVars>>

NextCache ==
    \/ (\E t \in Callers, f \in BOOLEAN : get_mcp_servers(t, f)) /\ UNCHANGED exceptCache
    \/ (\E t \in Callers : lock_acquired(t)) /\ UNCHANGED exceptCache
    \/ (\E t \in Callers : servers_created(t)) /\ UNCHANGED exceptCache

SpecCache == Init /\ [][NextCache]_vars

\* No task has asked for a refresh.
NoRefresh == \A t \in Callers : getPc[t] # "idle" => ~getForce[t]

\* ------------------------------------------------------------------- C29
\* C29: as long as no caller passes force_refresh, however the calls of
\* get_mcp_servers interleave, create_mcp_servers_with_availability is run at
\* most once, by the first caller, and every caller that has returned holds
\* the one list that is cached.
C29_CreatedOnce ==
    NoRefresh =>
        /\ create_runs <= 1
        /\ (\E t \in Callers : getPc[t] # "idle") => create_runs = 1
        /\ \A t \in Callers :
              getPc[t] = "returned" => (getRet[t] # 0 /\ getRet[t] = mcp_servers)

\* All tasks have returned the same list; all but the first had called while
\* the list was being created and waited for the lock.
C29_Witness ==
    /\ NoRefresh
    /\ \A t \in Callers : getPc[t] = "returned" /\ getRet[t] = mcp_servers
    /\ create_runs = 1
    /\ \E t \in Callers : \A u \in Callers \ {t} : getWaited[u]

\* ===================================================== code sandbox manager
\* SandboxVariant, and a string that is neither of its two values.
Variants == {"local-eval", "local-jupyter", "unknown"}

\* The jupyter_url arguments: a URL is scheme://netloc/path, then "/" or
\* nothing, then a token query or nothing.
BaseUrl == "http://host/path"
JupyterUrls == {Str(<<BaseUrl, "/">>), Str(<<BaseUrl, "?token=", "q">>)}

\* query_params.get("token", [None])[0]
url_token(u) ==
    IF \E i \in DOMAIN u.text : u.text[i] = "?token="
    THEN Str(<<u.text[Len(u.text)]>>)
    ELSE None

\* f"{parsed.scheme}://{parsed.netloc}{parsed.path}" without a trailing "/"
clean_url(u) ==
    LET path == SelectSeq(u.text, LAMBDA x : x \in {BaseUrl, "/"})
    IN Str(IF path[Len(path)] = "/" THEN SubSeq(path, 1, Len(path) - 1) ELSE path)

\* configure, the assignments to self._config.  variant is "None" or a
\* variant; the other two arguments are None or a string.
configured(cfg, variant, jupyter_url, jupyter_token) ==
    LET with_url ==
            IF ~falsy(jupyter_url)
            THEN [cfg EXCEPT !.jupyter_url = clean_url(jupyter_url),
                             !.jupyter_token = IF ~falsy(jupyter_token) THEN jupyter_token
                                               ELSE url_token(jupyter_url)]
            ELSE IF ~jupyter_token.is_none
            THEN [cfg EXCEPT !.jupyter_token = jupyter_token]
            ELSE cfg
    IN IF variant # "None" THEN [with_url EXCEPT !.variant = variant] ELSE with_url

\* Faulty variant of config_changed: a new variant alone is no change.
config_changed_url_only(old_variant, cfg, jupyter_url) ==
    cfg.variant = "local-jupyter" /\ ~falsy(jupyter_url)

\* config_changed of configure
config_changed(old_variant, cfg, jupyter_url) ==
    \/ old_variant # cfg.variant
    \/ cfg.variant = "local-jupyter" /\ ~falsy(jupyter_url)

\* Faulty variant of create_raises: local-jupyter is created without a URL.
create_raises_unknown_only(cfg) == cfg.variant \notin {"local-eval", "local-jupyter"}

\* _create_sandbox raises ValueError: local-jupyter without a URL, or a
\* variant it does not know.
create_raises(cfg) ==
    \/ cfg.variant = "local-jupyter" /\ falsy(cfg.jupyter_url)
    \/ cfg.variant \notin {"local-eval", "local-jupyter"}

\* _create_sandbox: LocalEvalSandbox(), or LocalJupyterSandbox(server_url,
\* token), created by manager m.  start_calls, started and stopped record what
\* the manager has done with the object since.
created_sandbox(m, cfg) ==
    [mgr |-> m,
     variant |-> cfg.variant,
     server_url |-> IF cfg.variant = "local-jupyter" THEN cfg.jupyter_url ELSE None,
     token |-> IF cfg.variant = "local-jupyter" THEN cfg.jupyter_token ELSE None,
     start_calls |-> 0,
     started |-> FALSE,
     stopped |-> "no"]

\* self._sandbox.stop() inside try/except Exception: the call returns or
\* raises, and either way the caller goes on.
stopped_sandbox(i, outcome) ==
    [sandboxes EXCEPT ![i].stopped = IF outcome = "ok" THEN "yes" ELSE "raised"]

\* Faulty variant of sandbox_lock_free: the lock excludes nobody.
sandbox_lock_free_always(m) == TRUE

\* with self._sandbox_lock: the lock can be taken.
sandbox_lock_free(m) == m_sandbox_lock[m] = 0

\* Faulty variant of class_lock_free: the lock excludes nobody.
class_lock_free_always == TRUE

\* with cls._lock: the lock can be taken.
class_lock_free == cls_lock = 0

\* Faulty variant of released: leaving the with block keeps the lock.
released_never(lock, t) == lock

\* The with block of thread t ends: the lock is released.
released(lock, t) == IF lock = t THEN 0 ELSE lock

\* The operation of thread t ends with the given result.
Ends(t, op, outcome, val) ==
    /\ thPc' = [thPc EXCEPT ![t] = "idle"]
    /\ thOp' = [thOp EXCEPT ![t] = "none"]
    /\ thStart' = [thStart EXCEPT ![t] = FALSE]
    /\ result' = [op |-> op, outcome |-> outcome, val |-> val,
                   waited |-> thPc[t] = "wait"]

\* The operation of thread t goes on at position pc.
GoesOn(t, op, pc, start) ==
    /\ thPc' = [thPc EXCEPT ![t] = pc]
    /\ thOp' = [thOp EXCEPT ![t] = op]
    /\ thStart' = [thStart EXCEPT ![t] = start]
    /\ result' = NoResult

\* Thread t can invoke an operation on the manager it holds.  The model
\* follows MaxCalls invocations.  Idle threads that hold the same manager
\* differ in nothing but their number: the one with the lowest number calls.
CanCall(t) ==
    /\ thPc[t] = "idle"
    /\ thMgr[t] # 0
    /\ calls < MaxCalls
    /\ \A u \in Threads : (thPc[u] = "idle" /\ thMgr[u] = thMgr[t]) => t <= u

\* configure(variant, jupyter_url, jupyter_token): the whole with block.
configure(t, variant, jupyter_url, jupyter_token) ==
    LET m == thMgr[t]
        cfg == configured(m_config[m], variant, jupyter_url, jupyter_token)
    IN /\ CanCall(t)
       /\ sandbox_lock_free(m)
       /\ calls' = calls + 1
       /\ m_config' = [m_config EXCEPT ![m] = cfg]
       /\ IF m_sandbox[m] # 0 /\ config_changed(m_config[m].variant, cfg, jupyter_url)
          THEN /\ \E outcome \in {"ok", "raises"} :
                    sandboxes' = stopped_sandbox(m_sandbox[m], outcome)
               /\ m_sandbox' = [m_sandbox EXCEPT ![m] = 0]
          ELSE UNCHANGED <<m_sandbox, sandboxes>>
       /\ Ends(t, "configure", "returned", 0)
       /\ UNCHANGED <<cls_instance, cls_lock, num_managers, resets, m_sandbox_lock, thMgr,
                      thEpoch, class_calls, create_errors>>

\* The with block of get_sandbox and get_or_create_sandbox, up to the test of
\* self._sandbox: a sandbox held is returned, else the thread goes on to
\* create one with the lock held.
get_enter(t, op, start) ==
    LET m == thMgr[t] IN
    /\ sandbox_lock_free(m)
    /\ IF m_sandbox[m] # 0
       THEN /\ Ends(t, op, "returned", m_sandbox[m])
            /\ UNCHANGED m_sandbox_lock
       ELSE /\ GoesOn(t, op, "create", start)
            /\ m_sandbox_lock' = [m_sandbox_lock EXCEPT ![m] = t]
    /\ UNCHANGED <<cls_instance, cls_lock, num_managers, resets, m_config, create_errors,
                   class_calls, m_sandbox, sandboxes, thMgr, thEpoch>>

\* A call that finds the lock held waits for it.
get_waits(t, op, start) ==
    /\ ~sandbox_lock_free(thMgr[t])
    /\ GoesOn(t, op, "wait", start)
    /\ UNCHANGED <<cls_instance, cls_lock, num_managers, resets, m_config, create_errors,
                   class_calls, m_sandbox, m_sandbox_lock, sandboxes, thMgr, thEpoch>>

\* get_sandbox()
get_sandbox(t) ==
    /\ CanCall(t)
    /\ calls' = calls + 1
    /\ get_enter(t, "get_sandbox", TRUE) \/ get_waits(t, "get_sandbox", TRUE)

\* get_or_create_sandbox(start)
get_or_create_sandbox(t, start) ==
    /\ CanCall(t)
    /\ calls' = calls + 1
    /\ \/ get_enter(t, "get_or_create_sandbox", start)
       \/ get_waits(t, "get_or_create_sandbox", start)

\* The lock a get_sandbox or get_or_create_sandbox call waited for is free.
sandbox_lock_acquired(t) ==
    /\ thPc[t] = "wait"
    /\ get_enter(t, thOp[t], thStart[t])
    /\ UNCHANGED calls

\* self._sandbox = self._create_sandbox(); self._sandbox.start() if asked
\* for; return self._sandbox.  _create_sandbox or start() may raise: the with
\* block releases the lock and the exception reaches the caller.
create_and_start(t) ==
    LET m == thMgr[t]
        new == Len(sandboxes) + 1
        sandbox == created_sandbox(m, m_config[m])
    IN /\ thPc[t] = "create"
       /\ m_sandbox_lock' = [m_sandbox_lock EXCEPT ![m] = released(m_sandbox_lock[m], t)]
       /\ IF create_raises(m_config[m])
          THEN /\ Ends(t, thOp[t], "raised", 0)
               /\ create_errors' = create_errors + 1
               /\ UNCHANGED <<m_sandbox, sandboxes>>
          ELSE /\ m_sandbox' = [m_sandbox EXCEPT ![m] = new]
               /\ UNCHANGED create_errors
               /\ IF thStart[t]
                  THEN \E outcome \in {"ok", "raises"} :
                         /\ sandboxes' = Append(sandboxes,
                                [sandbox EXCEPT !.start_calls = 1,
                                                !.started = (outcome = "ok")])
                         /\ IF outcome = "ok"
                            THEN Ends(t, thOp[t], "returned", new)
                            ELSE Ends(t, thOp[t], "raised", 0)
                  ELSE /\ sandboxes' = Append(sandboxes, sandbox)
                       /\ Ends(t, thOp[t], "returned", new)
       /\ UNCHANGED <<cls_instance, cls_lock, num_managers, resets, m_config, class_calls,
                      calls, thMgr, thEpoch>>

\* What self._sandbox.stop() of the sandbox manager m holds can do.
StopOutcomes(m) == IF m_sandbox[m] # 0 THEN {"ok", "raises"} ELSE {"ok"}

\* Faulty variant of stop_handled: no except clause, an exception of the
\* sandbox's stop() leaves stop().
stop_handled_ok_only(outcome) == outcome = "ok"

\* try: self._sandbox.stop() / except Exception: the outcomes after which
\* stop() returns.
stop_handled(outcome) == outcome \in {"ok", "raises"}

\* The with block of stop() on manager m: a sandbox held is stopped and, in
\* the finally clause, dropped whatever its stop() did.
stop_body(m, outcome) ==
    IF m_sandbox[m] # 0
    THEN /\ sandboxes' = stopped_sandbox(m_sandbox[m], outcome)
         /\ m_sandbox' = [m_sandbox EXCEPT ![m] = 0]
    ELSE UNCHANGED <<m_sandbox, sandboxes>>

\* stop()
stop(t) ==
    /\ CanCall(t)
    /\ sandbox_lock_free(thMgr[t])
    /\ calls' = calls + 1
    /\ \E outcome \in StopOutcomes(thMgr[t]) :
          /\ stop_body(thMgr[t], outcome)
          /\ Ends(t, "stop", IF stop_handled(outcome) THEN "returned" ELSE "raised", 0)
    /\ UNCHANGED <<cls_instance, cls_lock, num_managers, resets, m_config, create_errors,
                   class_calls, m_sandbox_lock, thMgr, thEpoch>>

\* restart(), its self.stop()
restart(t) ==
    /\ CanCall(t)
    /\ sandbox_lock_free(thMgr[t])
    /\ calls' = calls + 1
    /\ \E outcome \in StopOutcomes(thMgr[t]) :
          /\ stop_body(thMgr[t], outcome)
          /\ IF stop_handled(outcome)
             THEN GoesOn(t, "restart", "restart_get", TRUE)
             ELSE Ends(t, "restart", "raised", 0)
    /\ UNCHANGED <<cls_instance, cls_lock, num_managers, resets, m_config, create_errors,
                   class_calls, m_sandbox_lock, thMgr, thEpoch>>

\* restart(), its return self.get_sandbox()
restart_get(t) ==
    /\ thPc[t] = "restart_get"
    /\ get_enter(t, "restart", TRUE)
    /\ UNCHANGED calls

\* get_instance(), the test outside the lock.  The model constructs at most
\* MaxManagers managers and follows MaxClassCalls calls of the class methods.
get_instance(t) ==
    /\ thPc[t] = "idle"
    /\ class_calls < MaxClassCalls
    /\ class_calls' = class_calls + 1
    /\ \/ cls_instance # 0
       \/ num_managers + Cardinality({u \in Threads : thPc[u] \in {"gi_lock", "gi_construct"}})
              < MaxManagers
    /\ thEpoch' = [thEpoch EXCEPT ![t] = resets]
    /\ GoesOn(t, "get_instance", IF cls_instance = 0 THEN "gi_lock" ELSE "gi_return", FALSE)
    /\ UNCHANGED <<cls_instance, cls_lock, num_managers, resets, m_config, create_errors,
                   m_sandbox, m_sandbox_lock, sandboxes, calls, thMgr>>

\* get_instance(), the with block up to the second test of cls._instance:
\* with an instance there is nothing to construct.
class_lock_acquired(t) ==
    /\ thPc[t] = "gi_lock"
    /\ class_lock_free
    /\ IF cls_instance = 0
       THEN /\ GoesOn(t, "get_instance", "gi_construct", FALSE)
            /\ cls_lock' = t
       ELSE /\ GoesOn(t, "get_instance", "gi_return", FALSE)
            /\ UNCHANGED cls_lock
    /\ UNCHANGED <<cls_instance, num_managers, resets, m_config, create_errors, class_calls,
                   m_sandbox, m_sandbox_lock, sandboxes, calls, thMgr, thEpoch>>

\* get_instance(), cls._instance = cls() with the class lock held.
construct(t) ==
    /\ thPc[t] = "gi_construct"
    /\ num_managers < MaxManagers
    /\ num_managers' = num_managers + 1
    /\ cls_instance' = num_managers + 1
    /\ cls_lock' = released(cls_lock, t)
    /\ GoesOn(t, "get_instance", "gi_return", FALSE)
    /\ UNCHANGED <<resets, m_config, create_errors, class_calls, m_sandbox, m_sandbox_lock,
                   sandboxes, calls, thMgr, thEpoch>>

\* get_instance(), return cls._instance: the attribute is read again.
return_instance(t) ==
    /\ thPc[t] = "gi_return"
    /\ thMgr' = [thMgr EXCEPT ![t] = cls_instance]
    /\ thEpoch' = [thEpoch EXCEPT ![t] = 0]
    /\ Ends(t, "get_instance", "returned", cls_instance)
    /\ UNCHANGED <<cls_instance, cls_lock, num_managers, resets, m_config, create_errors,
                   class_calls, m_sandbox, m_sandbox_lock, sandboxes, calls>>

\* reset_instance(), taking the class lock: with no instance there is
\* nothing to do.
reset_instance(t) ==
    /\ thPc[t] = "idle"
    /\ class_calls < MaxClassCalls
    /\ class_lock_free
    /\ class_calls' = class_calls + 1
    /\ IF cls_instance = 0
       THEN /\ Ends(t, "reset_instance", "returned", 0)
            /\ UNCHANGED cls_lock
       ELSE /\ GoesOn(t, "reset_instance", "reset", FALSE)
            /\ cls_lock' = t
    /\ UNCHANGED <<cls_instance, num_managers, resets, m_config, create_errors, m_sandbox,
                   m_sandbox_lock, sandboxes, calls, thMgr, thEpoch>>

\* reset_instance(), cls._instance.stop() and cls._instance = None, with the
\* class lock held.
reset_stop(t) ==
    /\ thPc[t] = "reset"
    /\ cls_lock' = released(cls_lock, t)
    /\ IF cls_instance = 0
       THEN /\ Ends(t, "reset_instance", "raised", 0)
            /\ UNCHANGED <<cls_instance, resets, m_sandbox, sandboxes>>
       ELSE /\ sandbox_lock_free(cls_instance)
            /\ \E outcome \in StopOutcomes(cls_instance) :
                  /\ stop_body(cls_instance, outcome)
                  /\ IF stop_handled(outcome)
                     THEN /\ cls_instance' = 0
                          /\ resets' = resets + 1
                          /\ Ends(t, "reset_instance", "returned", 0)
                     ELSE /\ Ends(t, "reset_instance", "raised", 0)
                          /\ UNCHANGED <<cls_instance, resets>>
    /\ UNCHANGED <<num_managers, m_config, create_errors, m_sandbox_lock, calls, class_calls,
                   thMgr, thEpoch>>

\* What the CodeSandboxManager leaves alone.
exceptSandbox == <<toolsetsVars, routesVars, catalogVars, toolsVars, errorVars, queryVars, parseVars, cliVars, cacheVars, agentsVars>>

\* The arguments of configure.
VariantArgs == {"None"} \cup Variants
UrlArgs == {None} \cup JupyterUrls
TokenArgs == {None, Str(<<"s">>)}

\* The manager after get_code_sandbox_manager() has constructed it and every
\* thread has got it.
InitSandboxInputs ==
    /\ InitToolsets /\ InitRoutes /\ InitCatalog /\ InitTools /\ InitErrors /\ InitQueries /\ InitParse /\ InitCli /\ InitCache /\ InitAgents
    /\ cls_instance = 1
    /\ cls_lock = 0
    /\ num_managers = 1
    /\ resets = 0
    /\ m_config = [m \in Managers |-> SandboxConfig]
    /\ m_sandbox = [m \in Managers |-> 0]
    /\ m_sandbox_lock = [m \in Managers |-> 0]
    /\ sandboxes = <<>>
    /\ calls = 0
    /\ class_calls = 0
    /\ create_errors = 0
    /\ thPc = [t \in Threads |-> "idle"]
    /\ thOp = [t \in Threads |-> "none"]
    /\ thMgr = [t \in Threads |-> 1]
    /\ thStart = [t \in Threads |-> FALSE]
    /\ thEpoch = [t \in Threads |-> 0]
    /\ result = NoResult

NextSandbox ==
    \/ (\E t \in Threads, v \in VariantArgs, u \in UrlArgs, k \in TokenArgs :
            configure(t, v, u, k)) /\ UNCHANGED exceptSandbox
    \/ (\E t \in Threads : get_sandbox(t)) /\ UNCHANGED exceptSandbox
    \/ (\E t \in Threads, start \in BOOLEAN :
            get_or_create_sandbox(t, start)) /\ UNCHANGED exceptSandbox
    \/ (\E t \in Threads : sandbox_lock_acquired(t)) /\ UNCHANGED exceptSandbox
    \/ (\E t \in Threads : create_and_start(t)) /\ UNCHANGED exceptSandbox
    \/ (\E t \in Threads : stop(t)) /\ UNCHANGED exceptSandbox
    \/ (\E t \in Threads : restart(t)) /\ UNCHANGED exceptSandbox
    \/ (\E t \in Threads : restart_get(t)) /\ UNCHANGED exceptSandbox

SpecSandbox == InitSandboxInputs /\ [][NextSandbox]_vars

\* Manager m has not created a sandbox so far.
NoSandboxYet(m) == \A i \in DOMAIN sandboxes : sandboxes[i].mgr # m

\* The class methods, and get_sandbox for the first sandbox of a manager.
NextSingleton ==
    \/ (\E t \in Threads : get_instance(t)) /\ UNCHANGED exceptSandbox
    \/ (\E t \in Threads : class_lock_acquired(t)) /\ UNCHANGED exceptSandbox
    \/ (\E t \in Threads : construct(t)) /\ UNCHANGED exceptSandbox
    \/ (\E t \in Threads : return_instance(t)) /\ UNCHANGED exceptSandbox
    \/ (\E t \in Threads : reset_instance(t)) /\ UNCHANGED exceptSandbox
    \/ (\E t \in Threads : reset_stop(t)) /\ UNCHANGED exceptSandbox
    \/ (\E t \in Threads : NoSandboxYet(thMgr[t]) /\ get_sandbox(t))
           /\ UNCHANGED exceptSandbox
    \/ (\E t \in Threads : sandbox_lock_acquired(t)) /\ UNCHANGED exceptSandbox
    \/ (\E t \in Threads : create_and_start(t)) /\ UNCHANGED exceptSandbox

SpecSingleton == Init /\ [][NextSingleton]_vars

\* --------------------------------------------------------------------- C22
\* A call of get_sandbox has just returned a sandbox.
GetSandboxReturned == result.op = "get_sandbox" /\ result.outcome = "returned"

\* C22: every sandbox a get_sandbox call returns has had start() called on it
\* and the call completed, whatever configure, get_or_create_sandbox, stop,
\* restart and get_sandbox calls came before, a get_sandbox whose start()
\* raised included.
C22_ReturnedSandboxStarted ==
    GetSandboxReturned => sandboxes[result.val].started

\* --------------------------------------------------------------------- C23
\* A call of get_sandbox, get_or_create_sandbox or restart has just returned
\* a sandbox.
SandboxReturned ==
    /\ result.op \in {"get_sandbox", "get_or_create_sandbox", "restart"}
    /\ result.outcome = "returned"

\* C23: sandbox creation is thread-safe.  A sandbox that was created and not
\* stopped since is the one its manager holds, so that callers that come
\* together to a manager without a sandbox make one sandbox between them;
\* start() is called at most once on a sandbox; and the sandbox a call returns
\* is that one sandbox of the manager.
C23_OneSandboxForAllCallers ==
    /\ \A i \in DOMAIN sandboxes :
          /\ sandboxes[i].stopped = "no" => m_sandbox[sandboxes[i].mgr] = i
          /\ sandboxes[i].start_calls <= 1
    /\ SandboxReturned =>
          \E m \in Managers : m_sandbox[m] = result.val /\ sandboxes[result.val].mgr = m

\* Two threads called a manager without a sandbox together: one created and
\* started the sandbox, the other waited for the lock and has received the
\* same sandbox, the only one there is.
C23_Witness ==
    /\ SandboxReturned
    /\ result.waited
    /\ Len(sandboxes) = 1
    /\ result.val = 1
    /\ m_sandbox[1] = 1
    /\ sandboxes[1].start_calls = 1
    /\ sandboxes[1].started
    /\ calls = 2

\* --------------------------------------------------------------------- C21
\* Thread t ends a get_sandbox call in this step by creating a sandbox.
GetSandboxCreates(t) ==
    thPc[t] = "create" /\ thOp[t] = "get_sandbox" /\ thPc'[t] = "idle"

GetInstanceReturns(t) == thPc[t] = "gi_return" /\ thPc'[t] = "idle"

\* Thread t ends reset_instance in this step with an instance to reset.
ResetsInstance(t) == thPc[t] = "reset" /\ thPc'[t] = "idle" /\ cls_instance # 0

\* C24: CodeSandboxManager is a singleton.  Between two resets at most one
\* manager is constructed, and a get_instance call during which no reset
\* happened returns that manager, the one the class holds; reset_instance
\* leaves the manager it resets without sandbox, with stop() called on the
\* sandbox it held, and the class without instance; and the manager that a
\* get_instance call constructs is a new one, that no thread holds, with the
\* default configuration and no sandbox.
C24_Singleton ==
    [][/\ num_managers' <= resets' + 1
       /\ \A t \in Threads :
             /\ (GetInstanceReturns(t) /\ thEpoch[t] = resets) =>
                    /\ result'.outcome = "returned"
                    /\ result'.val = cls_instance
                    /\ result'.val = num_managers
                    /\ result'.val # 0
                    /\ thMgr'[t] = result'.val
             /\ ResetsInstance(t) =>
                    /\ cls_instance' = 0
                    /\ m_sandbox'[cls_instance] = 0
                    /\ m_sandbox[cls_instance] # 0 =>
                           sandboxes'[m_sandbox[cls_instance]].stopped # "no"
       /\ cls_instance' \notin {0, cls_instance} =>
             /\ cls_instance = 0
             /\ cls_instance' = num_managers'
             /\ num_managers' = num_managers + 1
             /\ \A u \in Threads : thMgr[u] # cls_instance'
             /\ m_config'[cls_instance'] = SandboxConfig
             /\ m_sandbox'[cls_instance'] = 0]_vars

\* Manager 1 was constructed and made a sandbox; reset_instance stopped that
\* sandbox; a get_instance call after it has returned manager 2, while another
\* thread still holds manager 1.
C24_Witness ==
    /\ result.op = "get_instance"
    /\ result.outcome = "returned"
    /\ result.val = 2
    /\ cls_instance = 2
    /\ resets = 1
    /\ Len(sandboxes) = 1
    /\ sandboxes[1].mgr = 1
    /\ sandboxes[1].stopped = "yes"
    /\ m_sandbox[1] = 0
    /\ \E t, u \in Threads : thMgr[t] = 1 /\ thMgr[u] = 2

\* --------------------------------------------------------------------- C32
\* The sandbox i is what _create_sandbox makes of the configuration cfg.
CreatedFrom(i, cfg) ==
    /\ sandboxes[i].variant = cfg.variant
    /\ cfg.variant = "local-jupyter" =>
          /\ sandboxes[i].server_url = cfg.jupyter_url
          /\ sandboxes[i].token = cfg.jupyter_token

\* C32: a sandbox that a manager holds was created from the manager's current
\* configuration: it has the configured variant and, for local-jupyter, the
\* configured jupyter_url and jupyter_token, after any configure,
\* get_sandbox, stop and restart calls.
C32_HeldSandboxMatchesConfig ==
    \A m \in Managers : m_sandbox[m] # 0 => CreatedFrom(m_sandbox[m], m_config[m])

\* --------------------------------------------------------------------- C34
\* get_status()["sandbox_running"] of manager m
sandbox_running(m) == m_sandbox[m] # 0

\* C34: a stop() call returns, also when stop() of the sandbox raised, and
\* when it has returned get_status reports sandbox_running = false for the
\* manager.
C34_StopDropsAndSwallows ==
    result.op = "stop" =>
        /\ result.outcome = "returned"
        /\ \A t \in Threads : ~sandbox_running(thMgr[t])

\* stop() has returned on a manager whose sandbox raised in its own stop().
C34_Witness ==
    /\ result.op = "stop"
    /\ result.outcome = "returned"
    /\ Len(sandboxes) = 1
    /\ sandboxes[1].stopped = "raised"
    /\ ~sandbox_running(1)

\* --------------------------------------------------------------------- C35
\* A configuration no sandbox can be created from: an unknown variant, or
\* local-jupyter without a Jupyter URL.
InvalidConfiguration(cfg) ==
    \/ cfg.variant = "unknown"
    \/ cfg.variant = "local-jupyter" /\ cfg.jupyter_url = None

\* C35: when the configuration is invalid in a get_sandbox call that finds no
\* sandbox held, _create_sandbox raises, the call raises,
\* the manager holds no sandbox afterwards, no sandbox was made and the lock
\* is free again; and a get_sandbox call that finds no sandbox held, a failed
\* call before it or not, reaches _create_sandbox with the configuration of
\* that moment and, when that one is valid, makes a sandbox and calls start()
\* on it.
C35_FailedCreationLeavesNoSandbox ==
    [][\A t \in Threads :
          GetSandboxCreates(t) =>
              IF InvalidConfiguration(m_config[thMgr[t]])
              THEN /\ result'.outcome = "raised"
                   /\ create_errors' = create_errors + 1
                   /\ m_sandbox'[thMgr[t]] = 0
                   /\ m_sandbox_lock'[thMgr[t]] = 0
                   /\ sandboxes' = sandboxes
              ELSE /\ Len(sandboxes') = Len(sandboxes) + 1
                   /\ m_sandbox'[thMgr[t]] = Len(sandboxes')
                   /\ sandboxes'[Len(sandboxes')].start_calls = 1
                   /\ CreatedFrom(Len(sandboxes), m_config[thMgr[t]])'
                   /\ result'.outcome = "returned" =>
                          /\ result'.val = Len(sandboxes')
                          /\ sandboxes'[Len(sandboxes')].started]_vars

\* A get_sandbox call failed in _create_sandbox, configure corrected the
\* configuration, and a get_sandbox call has returned the first sandbox the
\* manager ever made, started.
C35_Witness ==
    /\ GetSandboxReturned
    /\ create_errors = 1
    /\ Len(sandboxes) = 1
    /\ result.val = 1
    /\ m_sandbox[1] = 1
    /\ sandboxes[1].started
    /\ ~InvalidConfiguration(m_config[1])

\* ------------------------------------------------- all operations together
\* The model follows MaxCalls invocations, class methods included.
CanInvoke == calls + class_calls < MaxCalls

\* Every operation of the class and of its managers, called by threads that
\* get their manager from get_instance.  configure changes the variant only.
NextLocks ==
    \/ (\E t \in Threads : CanInvoke /\ get_instance(t)) /\ UNCHANGED exceptSandbox
    \/ (\E t \in Threads : class_lock_acquired(t)) /\ UNCHANGED exceptSandbox
    \/ (\E t \in Threads : construct(t)) /\ UNCHANGED exceptSandbox
    \/ (\E t \in Threads : return_instance(t)) /\ UNCHANGED exceptSandbox
    \/ (\E t \in Threads : CanInvoke /\ reset_instance(t)) /\ UNCHANGED exceptSandbox
    \/ (\E t \in Threads : reset_stop(t)) /\ UNCHANGED exceptSandbox
    \/ (\E t \in Threads, v \in Variants :
            CanInvoke /\ configure(t, v, None, None)) /\ UNCHANGED exceptSandbox
    \/ (\E t \in Threads : CanInvoke /\ get_sandbox(t)) /\ UNCHANGED exceptSandbox
    \/ (\E t \in Threads, start \in BOOLEAN :
            CanInvoke /\ get_or_create_sandbox(t, start)) /\ UNCHANGED exceptSandbox
    \/ (\E t \in Threads : sandbox_lock_acquired(t)) /\ UNCHANGED exceptSandbox
    \/ (\E t \in Threads : create_and_start(t)) /\ UNCHANGED exceptSandbox
    \/ (\E t \in Threads : CanInvoke /\ stop(t)) /\ UNCHANGED exceptSandbox
    \/ (\E t \in Threads : CanInvoke /\ restart(t)) /\ UNCHANGED exceptSandbox
    \/ (\E t \in Threads : restart_get(t)) /\ UNCHANGED exceptSandbox

SpecLocks == Init /\ [][NextLocks]_vars

\* --------------------------------------------------------------------- C33
\* The next step of the operation thread t is in.
Proceeds(t) ==
    \/ class_lock_acquired(t)
    \/ construct(t)
    \/ return_instance(t)
    \/ reset_stop(t)
    \/ sandbox_lock_acquired(t)
    \/ create_and_start(t)
    \/ restart_get(t)

\* C33: no interleaving of the operations deadlocks.  A lock is held only by
\* a thread inside the with block that took it, so an operation that ended
\* has released its locks; the holder of a sandbox lock takes no other lock;
\* no thread waits for a lock it holds itself; and whenever operations are in
\* progress, one of them can take its next step.
C33_NoDeadlock ==
    /\ cls_lock # 0 => thPc[cls_lock] \in {"gi_construct", "reset"}
    /\ \A m \in Managers :
          m_sandbox_lock[m] # 0 =>
              /\ thPc[m_sandbox_lock[m]] = "create"
              /\ thMgr[m_sandbox_lock[m]] = m
              /\ cls_lock # m_sandbox_lock[m]
    /\ \A t \in Threads :
          /\ thPc[t] \in {"wait", "restart_get"} => m_sandbox_lock[thMgr[t]] # t
          /\ thPc[t] = "gi_lock" => cls_lock # t
          /\ thPc[t] = "reset" => cls_instance # 0 /\ m_sandbox_lock[cls_instance] # t
    /\ (\E t \in Threads : thPc[t] # "idle") => \E t \in Threads : ENABLED Proceeds(t)

\* reset_instance holds the class lock and waits for the sandbox lock of the
\* manager, which a get_sandbox call in a second thread holds while it
\* creates the sandbox.
C33_Witness ==
    \E t, u \in Threads :
        /\ thPc[t] = "reset"
        /\ cls_lock = t
        /\ thPc[u] = "create"
        /\ m_sandbox_lock[cls_instance] = u
        /\ ~ENABLED Proceeds(t)
        /\ ENABLED Proceeds(u)

\* ============================================================ create_agent
\* register_agent(agent, info): the registry with the agent under info.id.
register_agent(reg, agent, id) == [reg EXCEPT ![id] = agent]

\* The handler r responds with the given status.
Responds(r, status) ==
    /\ caPc' = [caPc EXCEPT ![r] = "responded"]
    /\ caStatus' = [caStatus EXCEPT ![r] = status]

\* create_agent, from the existence check up to the first await of the body
\* or, in a body that awaits nothing, up to the response.  The body awaits
\* when it starts MCP servers, initializes the config servers or starts the
\* codemode toolset.
create_agent_checks(r, name, awaits) ==
    LET agent_id == agent_id_of(name) IN
    /\ caPc[r] = "idle"
    /\ caId' = [caId EXCEPT ![r] = agent_id]
    /\ IF agents[agent_id] # 0
       THEN /\ Responds(r, 400)
            /\ UNCHANGED agents
       ELSE IF awaits
       THEN /\ caPc' = [caPc EXCEPT ![r] = "building"]
            /\ UNCHANGED <<agents, caStatus>>
       ELSE \E outcome \in {"ok", "raises"} :
              IF outcome = "ok"
              THEN /\ agents' = register_agent(agents, r, agent_id)
                   /\ Responds(r, 200)
              ELSE /\ Responds(r, 500)
                   /\ UNCHANGED agents

\* create_agent after its last await: the rest of the body raises, or the
\* agent is registered and the handler returns.
create_agent_registers(r) ==
    /\ caPc[r] = "building"
    /\ UNCHANGED caId
    /\ \E outcome \in {"ok", "raises"} :
          IF outcome = "ok"
          THEN /\ agents' = register_agent(agents, r, caId[r])
               /\ Responds(r, 200)
          ELSE /\ Responds(r, 500)
               /\ UNCHANGED agents

\* The response of handler r is sent: r serves the next request.
response_sent(r) ==
    /\ caPc[r] = "responded"
    /\ caPc' = [caPc EXCEPT ![r] = "idle"]
    /\ caId' = [caId EXCEPT ![r] = <<>>]
    /\ caStatus' = [caStatus EXCEPT ![r] = 0]
    /\ UNCHANGED agents

\* What the create_agent handlers leave alone.
exceptAgents == <<toolsetsVars, routesVars, catalogVars, toolsVars, errorVars, queryVars, parseVars, cliVars, cacheVars, sandboxVars>>

NextAgents ==
    \/ (\E r \in Requests, name \in AgentNames, awaits \in BOOLEAN :
            create_agent_checks(r, name, awaits)) /\ UNCHANGED exceptAgents
    \/ (\E r \in Requests : create_agent_registers(r)) /\ UNCHANGED exceptAgents
    \/ (\E r \in Requests : response_sent(r)) /\ UNCHANGED exceptAgents

SpecAgents == Init /\ [][NextAgents]_vars

\* --------------------------------------------------------------------- C31
\* C31: a create_agent request for an id that is registered is answered with
\* 400 and replaces nothing: an entry of the registry never changes once it
\* is there, a request is answered with 200 only if its id had no entry
\* before, and a request whose check finds the id registered is answered
\* with 400; also when requests for the same name overlap.
C31_DuplicateRejected ==
    [][/\ \A id \in AgentIds : agents[id] # 0 => agents'[id] = agents[id]
       /\ \A r \in Requests :
             /\ (caStatus[r] = 0 /\ caStatus'[r] = 200) =>
                    /\ agents[caId'[r]] = 0
                    /\ agents'[caId'[r]] = r
             /\ (caPc[r] = "idle" /\ caPc'[r] # "idle" /\ agents[caId'[r]] # 0) =>
                    caStatus'[r] = 400]_vars

====
